---- MODULE Spec2Model ----
(***************************************************************************)
(* A model of the retrieval and memory engine of Ollama-Workbench-2:       *)
(*   packages/api/src/routers/memory.py     sessions, memories,            *)
(*                                          consolidation, context         *)
(*   packages/api/src/routers/knowledge.py  chunking, ingestion, search,   *)
(*                                          RAG context                    *)
(* Every request handler is a coroutine: it runs without preemption up to  *)
(* an `await` on a collaborator (embedding provider, summarizer, vector    *)
(* index) and resumes later.  A handler is therefore modelled by one       *)
(* action per run between two suspension points.                           *)
(*                                                                         *)
(* Representation:                                                         *)
(*   text        a name of the table Texts, which gives its characters     *)
(*   None / ""   NoText for a text, <<>> for a vector (the code only tests *)
(*               their truthiness)                                         *)
(*   ids         positive integers drawn from a counter (uuid4 is fresh);  *)
(*               NoId stands for None                                      *)
(*   importance  an integer number of tenths (5 is 0.5)                    *)
(*   time        an integer number of ticks; an hour is HourTicks ticks    *)
(*   score       an integer number of tenths, as the thresholds            *)
(*   knowledge   the texts of files, chunks and contexts are sequences of  *)
(*               characters                                                *)
(***************************************************************************)
EXTENDS Integers, Sequences, FiniteSets, TLC

----------------------------------------------------------------------------
(* Bounds of the model *)

MaxMem == 2
MaxSess == 2
MaxClock == 2
MaxInflight == 2
HourTicks == 1

----------------------------------------------------------------------------
(* Program constants *)

NoId == 0
ImportanceMin == 0
ImportanceMax == 10
SummarizeMinLen == 500
MinAgeHours == 1

----------------------------------------------------------------------------
(* Generic helpers *)

Range(s) == {s[i] : i \in DOMAIN s}

Remove(s, x) == SelectSeq(s, LAMBDA y : y # x)

Restrict(f, S) == [x \in S |-> f[x]]

----------------------------------------------------------------------------
(* Texts *)

NoText == ""

\* The texts the requests use, by name; "long" is one character longer than
\* the auto_summarize threshold.
Texts ==
    ("" :> <<>>) @@ ("a" :> <<"a">>) @@ ("b" :> <<"b">>) @@ ("s" :> <<"s">>)
      @@ ("A" :> <<"A">>) @@ ("Ab" :> <<"A", "b">>)
      @@ ("long" :> [i \in 1..(SummarizeMinLen + 1) |-> "x"])

TextLen(name) == Len(Texts[name])

----------------------------------------------------------------------------
(* State *)

VARIABLES
    clock,      \* datetime.now()
    sessions,   \* _sessions: session id -> Session
    memOrder,   \* the keys of _memories, in insertion order
    memObj,     \* the MemoryEntry objects: those of _memories and those a
                \* suspended consolidation pass still references
    nextMem,    \* the next fresh memory id
    nextSess,   \* the next fresh session id
    inflight,   \* the suspended request handlers, by slot
    reply,      \* the response of the handler that completed last
    collections,  \* _collections: collection id -> Collection
    documents,    \* _documents: document id -> Document
    chunkStore,   \* the values of _chunks, in insertion order
    index,        \* the vector index (Qdrant): collection id -> its points
    nextCol,    \* the next fresh collection id
    nextDoc,    \* the next fresh document id
    fn          \* the call of a pure function under check: its arguments,
                \* its position and its result

\* The variables of the knowledge base
kbVars == <<collections, documents, chunkStore, index, nextCol, nextDoc>>

vars == <<clock, sessions, memOrder, memObj, nextMem, nextSess, inflight, reply, kbVars, fn>>

\* The variables of the memory store
memVars == <<sessions, memOrder, memObj, nextMem, nextSess>>

NoCall == [op |-> "none"]

\* _collections, _documents and _chunks at import, and an index that holds
\* no collection
InitKnowledge ==
    /\ collections = <<>>
    /\ documents = <<>>
    /\ chunkStore = <<>>
    /\ index = <<>>
    /\ nextCol = 1
    /\ nextDoc = 1

Reqs == 1..MaxInflight

Idle == [op |-> "idle"]

NoReply == [op |-> "none", status |-> 0]

----------------------------------------------------------------------------
(* Memory store: models and validation *)

\* metadata holds the pairs of the dict other than "promoted_from", which is
\* the field promoted_from (NoId when the key is absent)
MemoryEntry(type, content, summary, importance, timestamp, session_id, agent_id, metadata, promoted_from, embedding) ==
    [type |-> type, content |-> content, summary |-> summary,
     importance |-> importance, timestamp |-> timestamp,
     session_id |-> session_id, agent_id |-> agent_id,
     metadata |-> metadata, promoted_from |-> promoted_from,
     embedding |-> embedding]

Session(agent_id, now) ==
    [agent_id |-> agent_id, started_at |-> now, last_active_at |-> now,
     message_count |-> 0]

\* metadata: dict = {} of MemoryStoreRequest, and a dict with one pair
NoMetadata == {}

SourceTag == {<<"source", "chat">>}

MemoryTypes == {"session", "episodic", "semantic"}

\* Field(ge=0.0, le=1.0) of MemoryEntry, MemoryStoreRequest, ConsolidationRequest
ImportanceInRange(importance) ==
    ImportanceMin <= importance /\ importance <= ImportanceMax

ValidStoreRequest(req) ==
    req.type \in MemoryTypes /\ ImportanceInRange(req.importance)

ValidConsolidationRequest(req) ==
    /\ req.max_age_hours >= MinAgeHours
    /\ ImportanceInRange(req.importance_threshold)

\* The objects still referenced: the values of _memories, the candidates of
\* the suspended passes and of the report kept in reply (CPython frees the rest).
Referenced(order, infl, rep) ==
    Range(order)
      \cup UNION {Range(infl[r].candidates) :
                    r \in {q \in DOMAIN infl : infl[q].op = "consolidate_memories"}}
      \cup (IF rep.op = "consolidate_memories" /\ rep.status = 200
             THEN Range(rep.candidates) ELSE {})

Collect(obj, order, infl, rep) ==
    Restrict(obj, DOMAIN obj \cap Referenced(order, infl, rep))

----------------------------------------------------------------------------
(* Clock and sessions *)

\* The response of a completed handler reaches its caller before the event
\* loop runs the next handler.
Ready == reply = NoReply

Deliver ==
    /\ reply # NoReply
    /\ reply' = NoReply
    /\ memObj' = Collect(memObj, memOrder, inflight, reply')
    /\ UNCHANGED <<kbVars, fn, clock, sessions, memOrder, nextMem, nextSess, inflight>>

Tick ==
    /\ Ready
    /\ clock < MaxClock
    /\ clock' = clock + 1
    /\ UNCHANGED <<kbVars, fn, sessions, memOrder, memObj, nextMem, nextSess, inflight, reply>>

create_session(agent_id) ==
    /\ Ready
    /\ nextSess <= MaxSess
    /\ sessions' = sessions @@ (nextSess :> Session(agent_id, clock))
    /\ nextSess' = nextSess + 1
    /\ reply' = [op |-> "create_session", status |-> 200]
    /\ memObj' = Collect(memObj, memOrder, inflight, reply')
    /\ UNCHANGED <<kbVars, fn, clock, memOrder, nextMem, inflight>>

\* memory.py:205-208
\* A cascade that takes the entries of every kind
SessionMemoriesAnyKind(order, obj, session_id) ==
    SelectSeq(order, LAMBDA mid : obj[mid].session_id = session_id)

SessionMemories(order, obj, session_id) ==
    SelectSeq(order, LAMBDA mid :
        obj[mid].session_id = session_id /\ obj[mid].type = "session")

delete_session(session_id) ==
    /\ Ready
    /\ IF session_id \notin DOMAIN sessions
       THEN /\ reply' = [op |-> "delete_session", status |-> 404,
                         session_id |-> session_id]
            /\ memObj' = Collect(memObj, memOrder, inflight, reply')
            /\ UNCHANGED <<kbVars, fn, clock, sessions, memOrder, nextMem, nextSess, inflight>>
       ELSE LET memory_ids == SessionMemories(memOrder, memObj, session_id)
            IN /\ memOrder' = SelectSeq(memOrder,
                                        LAMBDA mid : mid \notin Range(memory_ids))
               /\ sessions' = Restrict(sessions, DOMAIN sessions \ {session_id})
               /\ reply' = [op |-> "delete_session", status |-> 200,
                            session_id |-> session_id,
                            memories_deleted |-> Len(memory_ids)]
               /\ memObj' = Collect(memObj, memOrder', inflight, reply')
               /\ UNCHANGED <<kbVars, fn, clock, nextMem, nextSess, inflight>>

----------------------------------------------------------------------------
(* store_memory: suspends in generate_embedding and, for a long text with  *)
(* auto_summarize, in summarize_text                                       *)

store_memory(r, req) ==
    /\ Ready
    /\ inflight[r] = Idle
    /\ nextMem <= MaxMem
    /\ IF ~ValidStoreRequest(req)
       THEN /\ reply' = [op |-> "store_memory", status |-> 422, req |-> req]
            /\ memObj' = Collect(memObj, memOrder, inflight, reply')
            /\ UNCHANGED <<kbVars, fn, clock, sessions, memOrder, nextMem, nextSess, inflight>>
       ELSE /\ inflight' = [inflight EXCEPT ![r] =
                   [op |-> "store_memory", pc |-> "embed", req |-> req,
                    memory_id |-> nextMem, now |-> clock, embedding |-> <<>>]]
            /\ nextMem' = nextMem + 1
            /\ UNCHANGED <<kbVars, fn, clock, sessions, memOrder, memObj, nextSess, reply>>

\* memory.py:250-253
\* An update that counts the write in every session
TouchSessionAll(sess, session_id, now) ==
    [t \in DOMAIN sess |-> [sess[t] EXCEPT !.message_count = @ + 1,
                                           !.last_active_at = now]]

TouchSession(sess, session_id, now) ==
    IF session_id # NoId /\ session_id \in DOMAIN sess
    THEN [sess EXCEPT ![session_id].message_count = @ + 1,
                      ![session_id].last_active_at = now]
    ELSE sess

\* memory.py:234-255
StoreFinish(r, p, embedding, summary) ==
    LET req == p.req
        memory == MemoryEntry(req.type, req.content, summary, req.importance,
                              p.now, req.session_id, req.agent_id, req.metadata,
                              NoId, embedding)
    IN /\ memOrder' = Append(memOrder, p.memory_id)
       /\ sessions' = TouchSession(sessions, req.session_id, p.now)
       /\ inflight' = [inflight EXCEPT ![r] = Idle]
       /\ reply' = [op |-> "store_memory", status |-> 200, req |-> req]
       /\ memObj' = Collect(memObj @@ (p.memory_id :> memory),
                            memOrder', inflight', reply')
       /\ UNCHANGED <<kbVars, fn, clock, nextMem, nextSess>>

store_memory_embedded(r, embedding) ==
    /\ Ready
    /\ inflight[r].op = "store_memory"
    /\ inflight[r].pc = "embed"
    /\ LET p == inflight[r]
       IN IF p.req.auto_summarize /\ TextLen(p.req.content) > SummarizeMinLen
          THEN /\ inflight' = [inflight EXCEPT ![r] =
                      [p EXCEPT !.pc = "summarize", !.embedding = embedding]]
               /\ UNCHANGED <<kbVars, fn, clock, sessions, memOrder, memObj, nextMem,
                              nextSess, reply>>
          ELSE StoreFinish(r, p, embedding, NoText)

store_memory_summarized(r, summary) ==
    /\ Ready
    /\ inflight[r].op = "store_memory"
    /\ inflight[r].pc = "summarize"
    /\ StoreFinish(r, inflight[r], inflight[r].embedding, summary)

----------------------------------------------------------------------------
(* get / delete / update of one memory *)

delete_memory(memory_id) ==
    /\ Ready
    /\ IF memory_id \notin Range(memOrder)
       THEN /\ reply' = [op |-> "delete_memory", status |-> 404]
            /\ memObj' = Collect(memObj, memOrder, inflight, reply')
            /\ UNCHANGED <<kbVars, fn, clock, sessions, memOrder, nextMem, nextSess, inflight>>
       ELSE /\ memOrder' = Remove(memOrder, memory_id)
            /\ reply' = [op |-> "delete_memory", status |-> 200]
            /\ memObj' = Collect(memObj, memOrder', inflight, reply')
            /\ UNCHANGED <<kbVars, fn, clock, sessions, nextMem, nextSess, inflight>>

UpdateImportanceAcceptsAll(importance) == TRUE

\* memory.py:349
UpdateImportanceAccepts(importance) ==
    ImportanceMin <= importance /\ importance <= ImportanceMax

update_importance(memory_id, importance) ==
    /\ Ready
    /\ IF memory_id \notin Range(memOrder)
       THEN /\ reply' = [op |-> "update_importance", status |-> 404,
                         importance |-> importance]
            /\ memObj' = Collect(memObj, memOrder, inflight, reply')
       ELSE IF ~UpdateImportanceAccepts(importance)
       THEN /\ reply' = [op |-> "update_importance", status |-> 400,
                         importance |-> importance]
            /\ memObj' = Collect(memObj, memOrder, inflight, reply')
       ELSE /\ reply' = [op |-> "update_importance", status |-> 200,
                         importance |-> importance]
            /\ memObj' = Collect([memObj EXCEPT ![memory_id].importance = importance],
                                 memOrder, inflight, reply')
    /\ UNCHANGED <<kbVars, fn, clock, sessions, memOrder, nextMem, nextSess, inflight>>

----------------------------------------------------------------------------
(* consolidate_memories: suspends in summarize_text for every candidate it *)
(* promotes that has no summary                                            *)

\* memory.py:375-383, the test of one memory
IsCandidateAnyType(memory, req, cutoff) ==
    /\ ~(req.session_id # NoId /\ memory.session_id # req.session_id)
    /\ memory.timestamp < cutoff

IsCandidate(memory, req, cutoff) ==
    /\ memory.type = "session"
    /\ ~(req.session_id # NoId /\ memory.session_id # req.session_id)
    /\ memory.timestamp < cutoff

\* memory.py:389
IsPromotedStrict(memory, req) == memory.importance > req.importance_threshold

IsPromoted(memory, req) == memory.importance >= req.importance_threshold

\* memory.py:392-403
\* A promotion that starts from an empty metadata
PromoteBare(memory, memory_id, summary) ==
    MemoryEntry("episodic", memory.content, summary, memory.importance,
                memory.timestamp, memory.session_id, memory.agent_id,
                NoMetadata, memory_id, memory.embedding)

Promote(memory, memory_id, summary) ==
    MemoryEntry("episodic", memory.content, summary, memory.importance,
                memory.timestamp, memory.session_id, memory.agent_id,
                memory.metadata, memory_id, memory.embedding)

\* memory.py:392-409 for the candidate at p.idx: st is the store,
\* [order, obj, next]; `del _memories[memory.id]` raises KeyError when another
\* request removed the candidate while the pass was suspended.
ProcessCandidateKeep(p, promote, summary, st) ==
    LET memory_id == p.candidates[p.idx]
        st1 == IF promote
               THEN [order |-> Append(st.order, st.next),
                     obj |-> st.obj @@
                         (st.next :> Promote(st.obj[memory_id], memory_id, summary)),
                     next |-> st.next + 1]
               ELSE st
    IN IF memory_id \notin Range(st1.order)
       THEN [p |-> [p EXCEPT !.pc = "error"], st |-> st1]
       ELSE [p |-> [p EXCEPT !.idx = @ + 1,
                             !.promoted = @ + (IF promote THEN 1 ELSE 0),
                             !.deleted = @ + 1],
             st |-> IF promote THEN st1
                    ELSE [st1 EXCEPT !.order = Remove(@, memory_id)]]

ProcessCandidate(p, promote, summary, st) ==
    LET memory_id == p.candidates[p.idx]
        st1 == IF promote
               THEN [order |-> Append(st.order, st.next),
                     obj |-> st.obj @@
                         (st.next :> Promote(st.obj[memory_id], memory_id, summary)),
                     next |-> st.next + 1]
               ELSE st
    IN IF memory_id \notin Range(st1.order)
       THEN [p |-> [p EXCEPT !.pc = "error"], st |-> st1]
       ELSE [p |-> [p EXCEPT !.idx = @ + 1,
                             !.promoted = @ + (IF promote THEN 1 ELSE 0),
                             !.deleted = @ + 1],
             st |-> [st1 EXCEPT !.order = Remove(@, memory_id)]]

\* memory.py:388-409: the loop from p.idx on, up to the next suspension in
\* summarize_text, a KeyError, or the end of the candidates
RECURSIVE RunPass(_, _)
RunPass(p, st) ==
    IF p.pc = "error" THEN [p |-> p, st |-> st]
    ELSE IF p.idx > Len(p.candidates)
    THEN [p |-> [p EXCEPT !.pc = "done"], st |-> st]
    ELSE LET memory == st.obj[p.candidates[p.idx]]
         IN IF IsPromoted(memory, p.req)
            THEN IF memory.summary # NoText
                 THEN LET n == ProcessCandidate(p, TRUE, memory.summary, st)
                      IN RunPass(n.p, n.st)
                 ELSE [p |-> [p EXCEPT !.pc = "summarize"], st |-> st]
            ELSE LET n == ProcessCandidate(p, FALSE, NoText, st)
                 IN RunPass(n.p, n.st)

\* memory.py:411-415
Report(p) ==
    [op |-> "consolidate_memories", status |-> 200,
     candidates_found |-> Len(p.candidates),
     promoted_to_episodic |-> p.promoted, deleted |-> p.deleted,
     req |-> p.req, cutoff |-> p.cutoff, candidates |-> p.candidates]

\* The pass has run up to `out`: it is suspended, has returned its report,
\* or has raised (500).
PassRanTo(r, out) ==
    /\ memOrder' = out.st.order
    /\ nextMem' = out.st.next
    /\ inflight' = [inflight EXCEPT ![r] =
           IF out.p.pc = "summarize" THEN out.p ELSE Idle]
    /\ reply' = IF out.p.pc = "done" THEN Report(out.p)
                ELSE IF out.p.pc = "error"
                THEN [op |-> "consolidate_memories", status |-> 500]
                ELSE reply
    /\ memObj' = Collect(out.st.obj, memOrder', inflight', reply')
    /\ UNCHANGED <<kbVars, fn, clock, sessions, nextSess>>

consolidate_memories(r, req) ==
    /\ Ready
    /\ inflight[r] = Idle
    /\ IF ~ValidConsolidationRequest(req)
       THEN /\ reply' = [op |-> "consolidate_memories", status |-> 422]
            /\ memObj' = Collect(memObj, memOrder, inflight, reply')
            /\ UNCHANGED <<kbVars, fn, clock, sessions, memOrder, nextMem, nextSess, inflight>>
       ELSE LET cutoff == clock - req.max_age_hours * HourTicks
                candidates == SelectSeq(memOrder,
                    LAMBDA mid : IsCandidate(memObj[mid], req, cutoff))
                p == [op |-> "consolidate_memories", pc |-> "loop", req |-> req,
                      cutoff |-> cutoff, candidates |-> candidates, idx |-> 1,
                      promoted |-> 0, deleted |-> 0]
            IN PassRanTo(r, RunPass(p, [order |-> memOrder, obj |-> memObj,
                                        next |-> nextMem]))

consolidate_memories_summarized(r, summary) ==
    /\ Ready
    /\ inflight[r].op = "consolidate_memories"
    /\ inflight[r].pc = "summarize"
    /\ LET n == ProcessCandidate([inflight[r] EXCEPT !.pc = "loop"], TRUE, summary,
                                 [order |-> memOrder, obj |-> memObj,
                                  next |-> nextMem])
       IN PassRanTo(r, RunPass(n.p, n.st))

----------------------------------------------------------------------------
(* Inputs *)

\* What the summarizer answers: a text, or "" when it fails
Summaries == {NoText, "s"}

\* Requests of the sequential specification: session memories below and
\* above the thresholds, of two sessions; an episodic memory; a long text
\* that is summarized on write; importances out of range.
SeqStoreRequests ==
    [content : {"a"}, type : {"session"}, importance : {2, 5},
     session_id : {1, 2}, agent_id : {NoId}, auto_summarize : {FALSE}, metadata : {NoMetadata}]
      \cup [content : {"b"}, type : {"episodic"}, importance : {5},
             session_id : {1}, agent_id : {NoId}, auto_summarize : {FALSE}, metadata : {NoMetadata}]
      \cup [content : {"long"}, type : {"session"}, importance : {5},
             session_id : {1}, agent_id : {NoId}, auto_summarize : {TRUE}, metadata : {SourceTag}]
      \cup [content : {"a"}, type : {"session"}, importance : {-1, 11},
             session_id : {1}, agent_id : {NoId}, auto_summarize : {FALSE}, metadata : {NoMetadata}]

ConsolidationRequests ==
    [session_id : {NoId, 1}, max_age_hours : {1}, importance_threshold : {3, 5}]

ImportanceUpdates == {-1, 2, 5, 11}

----------------------------------------------------------------------------
(* Specifications of the memory subsystem *)

Init ==
    /\ clock = 0
    /\ sessions = <<>>
    /\ memOrder = <<>>
    /\ memObj = <<>>
    /\ nextMem = 1
    /\ nextSess = 1
    /\ inflight = [r \in Reqs |-> Idle]
    /\ reply = NoReply
    /\ InitKnowledge
    /\ fn = NoCall

\* No handler is suspended.
Quiet == \A r \in Reqs : inflight[r] = Idle

\* Requests are served one after the other: a handler starts only when the
\* previous one has returned.
NextSeq ==
    \/ Deliver
    \/ Tick
    \/ \E req \in SeqStoreRequests : Quiet /\ store_memory(1, req)
    \/ store_memory_embedded(1, <<1, 0>>)
    \/ \E summary \in Summaries : store_memory_summarized(1, summary)
    \/ \E memory_id \in 1..nextMem : Quiet /\ delete_memory(memory_id)
    \/ \E memory_id \in 1..nextMem, importance \in ImportanceUpdates :
           Quiet /\ update_importance(memory_id, importance)
    \/ \E req \in ConsolidationRequests : Quiet /\ consolidate_memories(1, req)
    \/ \E summary \in Summaries : consolidate_memories_summarized(1, summary)

SpecSeq == Init /\ [][NextSeq]_vars

----------------------------------------------------------------------------
(* Claims about consolidation and importance, requests served in turn      *)

\* The report of a pass that has just returned
Reported == reply.op = "consolidate_memories" /\ reply.status = 200

\* A session-kind entry older than the cutoff of the reported pass that
\* matches its session filter
Eligible(memory) ==
    /\ memory.type = "session"
    /\ memory.timestamp < reply.cutoff
    /\ (reply.req.session_id = NoId \/ memory.session_id = reply.req.session_id)

\* The episodic entries of the store promoted from the entry memory_id
PromotedFrom(memory_id) ==
    {e \in Range(memOrder) :
        memObj[e].type = "episodic" /\ memObj[e].promoted_from = memory_id}

\* C1: when a consolidation pass returns, every session-kind entry older than
\* its cutoff (and matching its session filter) is absent from the store; if
\* its importance is at least the threshold an episodic entry promoted from
\* it, with the same content, is in the store; otherwise none is.
C1_ConsolidationPartition ==
    Reported =>
        \A id \in DOMAIN memObj :
            Eligible(memObj[id]) =>
                /\ id \notin Range(memOrder)
                /\ IF memObj[id].importance >= reply.req.importance_threshold
                   THEN \E e \in PromotedFrom(id) :
                            memObj[e].content = memObj[id].content
                   ELSE PromotedFrom(id) = {}

\* A pass has returned after promoting one old session entry and discarding
\* another.
C1_Witness ==
    /\ Reported
    /\ \E i, j \in DOMAIN memObj :
          /\ Eligible(memObj[i]) /\ Eligible(memObj[j])
          /\ memObj[i].importance >= reply.req.importance_threshold
          /\ memObj[j].importance < reply.req.importance_threshold
          /\ PromotedFrom(i) # {}

\* C2: every report has deleted = candidates_found and promoted_to_episodic
\* <= candidates_found, and promoted_to_episodic is the number of candidates
\* whose importance is at least the threshold.
C2_ReportCounts ==
    Reported =>
        /\ reply.deleted = reply.candidates_found
        /\ reply.promoted_to_episodic <= reply.candidates_found
        /\ reply.promoted_to_episodic =
             Cardinality({i \in DOMAIN reply.candidates :
                 memObj[reply.candidates[i]].importance
                     >= reply.req.importance_threshold})

\* A report of two candidates, one of them promoted, the promoted one with
\* an importance equal to the threshold.
C2_Witness ==
    /\ Reported
    /\ reply.candidates_found = 2
    /\ reply.promoted_to_episodic = 1
    /\ \E i \in DOMAIN reply.candidates :
          memObj[reply.candidates[i]].importance = reply.req.importance_threshold

\* C4: every entry of the store has an importance within [0,1]; a
\* store_memory or update_importance with an importance outside [0,1] is
\* refused (422, 400 or 404) and leaves the store as it was.
C4_ImportanceInRange ==
    [][/\ \A id \in Range(memOrder') : ImportanceInRange(memObj'[id].importance)
       /\ (/\ reply'.op \in {"store_memory", "update_importance"}
           /\ ~ImportanceInRange(IF reply'.op = "store_memory"
                                  THEN reply'.req.importance
                                  ELSE reply'.importance))
            => /\ reply'.status \in {400, 404, 422}
               /\ memOrder' = memOrder
               /\ \A id \in Range(memOrder) : memObj'[id] = memObj[id]]_vars

\* An update_importance of a stored entry to a value out of range has been
\* refused.
C4_Witness ==
    /\ reply.op = "update_importance"
    /\ reply.status = 400
    /\ ~ImportanceInRange(reply.importance)
    /\ memOrder # <<>>

\* Requests of the interleaved specification of sessions and writes; a
\* caller knows the id of a session only once create_session has returned it
StoreRequests ==
    [content : {"a"}, type : {"session"}, importance : {5},
     session_id : {1, 2}, agent_id : {NoId}, auto_summarize : {FALSE}, metadata : {NoMetadata}]
      \cup [content : {"long"}, type : {"session"}, importance : {5},
             session_id : {1}, agent_id : {NoId}, auto_summarize : {TRUE}, metadata : {SourceTag}]

\* Requests overlap: a handler may run while others are suspended.
Next ==
    \/ Deliver
    \/ Tick
    \/ create_session(NoId)
    \/ \E session_id \in 1..MaxSess : delete_session(session_id)
    \/ \E r \in Reqs, req \in {q \in StoreRequests : q.session_id < nextSess} :
           store_memory(r, req)
    \/ \E r \in Reqs : store_memory_embedded(r, <<1, 0>>)
    \/ \E r \in Reqs, summary \in Summaries : store_memory_summarized(r, summary)

Spec == Init /\ [][Next]_vars

----------------------------------------------------------------------------
(* Claims about sessions under overlapping requests                        *)

\* C3: the last_active_at of a session never decreases, also when
\* store_memory calls of the session overlap.
C3_LastActiveNeverDecreases ==
    [][\A s \in DOMAIN sessions \cap DOMAIN sessions' :
          sessions'[s].last_active_at >= sessions[s].last_active_at]_vars

----------------------------------------------------------------------------
(* Context assembly: the loops of get_rag_context and build_context over   *)
(* ranked results                                                          *)

\* The most results a search hands to the assembly
MaxResults == 2

CharsPerToken == 4
RagMinTokens == 256

RECURSIVE Join(_, _)
Join(parts, sep) ==
    IF parts = <<>> THEN <<>>
    ELSE IF Len(parts) = 1 THEN parts[1]
    ELSE parts[1] \o sep \o Join(Tail(parts), sep)

RECURSIVE SumTo(_, _)
SumTo(lens, n) == IF n = 0 THEN 0 ELSE lens[n] + SumTo(lens, n - 1)

\* The loop `for result in results: if total_chars + len(text) > max_chars:
\* break`: the number of results taken, given the lengths of their texts
RECURSIVE Taken(_, _, _, _)
Taken(lens, i, total_chars, max_chars) ==
    IF i > Len(lens) THEN i - 1
    ELSE IF total_chars + lens[i] > max_chars THEN i - 1
    ELSE Taken(lens, i + 1, total_chars + lens[i], max_chars)

SourceHeader(source) ==
    <<"[", "S", "o", "u", "r", "c", "e", ":", " ">> \o source \o <<"]", "\n">>

RagSeparator == <<"\n", "\n", "-", "-", "-", "\n", "\n">>

\* knowledge.py:567-591; a search result is [content, filename]
RagContext(search_results, max_tokens, include_sources) ==
    LET max_chars == max_tokens * CharsPerToken
        lens == [i \in DOMAIN search_results |-> Len(search_results[i].content)]
        n == Taken(lens, 1, 0, max_chars)
        context_parts == [i \in 1..n |->
            IF include_sources
            THEN SourceHeader(search_results[i].filename) \o search_results[i].content
            ELSE search_results[i].content]
    IN [context_text |-> Join(context_parts, RagSeparator),
        results |-> SubSeq(search_results, 1, n),
        total_tokens |-> SumTo(lens, n) \div CharsPerToken]

\* memory.type.upper() between brackets
KindLabel(type) ==
    CASE type = "session" -> <<"[", "S", "E", "S", "S", "I", "O", "N", "]">>
      [] type = "episodic" -> <<"[", "E", "P", "I", "S", "O", "D", "I", "C", "]">>
      [] type = "semantic" -> <<"[", "S", "E", "M", "A", "N", "T", "I", "C", "]">>

MemorySeparator == <<"\n", "\n">>

\* memory.py:494
ContextTextOf(memory) ==
    IF memory.summary # NoText THEN Texts[memory.summary] ELSE Texts[memory.content]

\* memory.py:487-509; results are memory entries
MemoryContext(results, max_tokens) ==
    LET max_chars == max_tokens * CharsPerToken
        lens == [i \in DOMAIN results |-> Len(ContextTextOf(results[i]))]
        n == Taken(lens, 1, 0, max_chars)
        context_parts == [i \in 1..n |->
            KindLabel(results[i].type) \o <<" ">> \o ContextTextOf(results[i])]
    IN [context_text |-> Join(context_parts, MemorySeparator),
        results |-> SubSeq(results, 1, n),
        total_tokens |-> SumTo(lens, n) \div CharsPerToken]

\* The assembly of the context of one call
assemble_context ==
    /\ fn.pc = "call"
    /\ fn.op \in {"get_rag_context", "build_context"}
    /\ fn' = [fn EXCEPT !.pc = "done",
                        !.out = IF fn.op = "get_rag_context"
                                THEN RagContext(fn.results, fn.max_tokens,
                                                fn.include_sources)
                                ELSE MemoryContext(fn.results, fn.max_tokens)]
    /\ UNCHANGED <<kbVars, clock, memVars, inflight, reply>>

SeqsUpTo(S, n) == UNION {[1..k -> S] : k \in 0..n}

XText(n) == [i \in 1..n |-> "x"]

\* Search results whose texts fill the smallest budget, its half, and more
\* than its half
RagResults ==
    [content : {XText(RagMinTokens * CharsPerToken),
                XText((RagMinTokens * CharsPerToken) \div 2),
                XText((RagMinTokens * CharsPerToken) \div 2 + 1)},
     filename : {<<"f">>}]

ContextMemories ==
    {MemoryEntry(type, content, summary, 5, 0, NoId, NoId, NoMetadata, NoId, <<1, 0>>) :
        type \in MemoryTypes, content \in {"a", "long"}, summary \in Summaries}

ContextCalls ==
    [op : {"get_rag_context"}, pc : {"call"}, out : {<<>>},
     results : SeqsUpTo(RagResults, MaxResults), max_tokens : {RagMinTokens},
     include_sources : BOOLEAN]
      \cup [op : {"build_context"}, pc : {"call"}, out : {<<>>},
             results : SeqsUpTo(ContextMemories, MaxResults),
             max_tokens : {1, 126}, include_sources : {TRUE}]

InitContext ==
    /\ clock = 0
    /\ sessions = <<>>
    /\ memOrder = <<>>
    /\ memObj = <<>>
    /\ nextMem = 1
    /\ nextSess = 1
    /\ inflight = [r \in Reqs |-> Idle]
    /\ reply = NoReply
    /\ InitKnowledge
    /\ fn \in ContextCalls

NextContext == assemble_context

SpecContext == InitContext /\ [][NextContext]_vars

\* The length of the context text when every taken result is in it whole,
\* with its header and the separators
WholeLength ==
    LET n == Len(fn.out.results)
        text(i) == IF fn.op = "get_rag_context" THEN fn.results[i].content
                   ELSE ContextTextOf(fn.results[i])
        header(i) == IF fn.op = "get_rag_context"
                     THEN (IF fn.include_sources
                           THEN Len(SourceHeader(fn.results[i].filename)) ELSE 0)
                     ELSE Len(KindLabel(fn.results[i].type)) + 1
        sep == IF fn.op = "get_rag_context" THEN Len(RagSeparator)
               ELSE Len(MemorySeparator)
    IN SumTo([i \in 1..n |-> header(i) + Len(text(i))], n)
         + (IF n > 1 THEN (n - 1) * sep ELSE 0)

\* C5: the context text returned by get_rag_context and by build_context,
\* header lines and separators included, is never longer than max_tokens * 4
\* characters, and every result it holds is in it whole.
C5_ContextWithinBudget ==
    fn.pc = "done" =>
        /\ Len(fn.out.context_text) <= fn.max_tokens * CharsPerToken
        /\ Len(fn.out.context_text) = WholeLength

----------------------------------------------------------------------------
(* Text chunking: chunk_text and the three strategies                      *)

\* The loop of chunk_fixed is followed up to this many chunks, and as far
\* back as this many characters before the start of the text
MaxChunks == 6
MaxBack == 300

ChunkSizeMin == 100
ChunkSizeMax == 4096
ChunkOverlapMax == 256

ChunkingMethods == {"fixed", "sentence", "paragraph", "semantic"}

\* The field constraints of ChunkingStrategy; there is no constraint that
\* relates chunk_overlap to chunk_size
ValidStrategy(strategy) ==
    /\ strategy.method \in ChunkingMethods
    /\ strategy.chunk_size >= ChunkSizeMin
    /\ strategy.chunk_size <= ChunkSizeMax
    /\ strategy.chunk_overlap >= 0
    /\ strategy.chunk_overlap <= ChunkOverlapMax

Whitespace == {" ", "\n", "\t", "\r"}

SentenceEnd == {".", "!", "?"}

ParagraphBreak == <<"\n", "\n">>

\* str.strip()
Strip(s) ==
    LET keep == {i \in 1..Len(s) : s[i] \notin Whitespace}
    IN IF keep = {} THEN <<>>
       ELSE SubSeq(s, CHOOSE i \in keep : \A j \in keep : i <= j,
                      CHOOSE i \in keep : \A j \in keep : i >= j)

\* s[start:end] with 0-based bounds; a negative bound counts from the end
PySlice(s, start, end) ==
    LET n == Len(s)
        clamp(k) == IF k < 0 THEN (IF k + n < 0 THEN 0 ELSE k + n)
                    ELSE (IF k > n THEN n ELSE k)
        lo == clamp(start)
        hi == clamp(end)
    IN IF lo < hi THEN SubSeq(s, lo + 1, hi) ELSE <<>>

\* The first position of sep in s, 0 when there is none
Find(s, sep) ==
    LET at == {i \in 1..(Len(s) - Len(sep) + 1) : SubSeq(s, i, i + Len(sep) - 1) = sep}
    IN IF at = {} THEN 0 ELSE CHOOSE i \in at : \A j \in at : i <= j

\* str.split(sep)
RECURSIVE Split(_, _)
Split(s, sep) ==
    LET i == Find(s, sep)
    IN IF i = 0 THEN <<s>>
       ELSE <<SubSeq(s, 1, i - 1)>> \o Split(SubSeq(s, i + Len(sep), Len(s)), sep)

\* re.split(r'(?<=[.!?])\s+', text)
RECURSIVE SplitSentences(_)
SplitSentences(s) ==
    LET at == {i \in 2..Len(s) : s[i] \in Whitespace /\ s[i - 1] \in SentenceEnd}
    IN IF at = {} THEN <<s>>
       ELSE LET i == CHOOSE k \in at : \A j \in at : k <= j
                rest == {k \in i..Len(s) : s[k] \notin Whitespace}
                j == IF rest = {} THEN Len(s) + 1
                     ELSE CHOOSE k \in rest : \A m \in rest : k <= m
            IN <<SubSeq(s, 1, i - 1)>> \o SplitSentences(SubSeq(s, j, Len(s)))

\* A pass of the loop that moves the window one character too far
FixedWindowGap(text, size, overlap, start, chunks) ==
    LET end == start + size
        chunk == Strip(PySlice(text, start, end))
    IN [chunks |-> IF chunk # <<>> THEN Append(chunks, chunk) ELSE chunks,
        start |-> end - overlap + 1]

\* One pass of the body of the while loop of chunk_fixed
FixedWindow(text, size, overlap, start, chunks) ==
    LET end == start + size
        chunk == Strip(PySlice(text, start, end))
    IN [chunks |-> IF chunk # <<>> THEN Append(chunks, chunk) ELSE chunks,
        start |-> end - overlap]

\* chunk_fixed when its loop comes to an end
RECURSIVE FixedFrom(_, _, _, _, _)
FixedFrom(text, size, overlap, start, chunks) ==
    IF start < Len(text)
    THEN LET w == FixedWindow(text, size, overlap, start, chunks)
         IN FixedFrom(text, size, overlap, w.start, w.chunks)
    ELSE chunks

chunk_fixed(text, size, overlap) == FixedFrom(text, size, overlap, 0, <<>>)

RECURSIVE PackSentences(_, _, _, _)
PackSentences(sentences, max_size, current_chunk, chunks) ==
    IF sentences = <<>>
    THEN IF current_chunk # <<>> THEN Append(chunks, Strip(current_chunk)) ELSE chunks
    ELSE LET sentence == Head(sentences)
         IN IF Len(current_chunk) + Len(sentence) <= max_size
            THEN PackSentences(Tail(sentences), max_size,
                     IF current_chunk # <<>> THEN current_chunk \o <<" ">> \o sentence
                     ELSE sentence,
                     chunks)
            ELSE PackSentences(Tail(sentences), max_size, sentence,
                     IF current_chunk # <<>> THEN Append(chunks, Strip(current_chunk))
                     ELSE chunks)

chunk_sentences(text, max_size, overlap) ==
    PackSentences(SplitSentences(text), max_size, <<>>, <<>>)

\* The body of the for loop of chunk_paragraphs for a paragraph that is not
\* blank; split says that the paragraph goes to chunk_fixed
ParagraphNext(para, max_size, current_chunk, chunks) ==
    IF Len(current_chunk) + Len(para) <= max_size
    THEN [current_chunk |-> IF current_chunk # <<>>
                            THEN current_chunk \o ParagraphBreak \o para ELSE para,
          chunks |-> chunks, split |-> FALSE]
    ELSE [current_chunk |-> IF Len(para) > max_size THEN current_chunk ELSE para,
          chunks |-> IF current_chunk # <<>> THEN Append(chunks, Strip(current_chunk))
                     ELSE chunks,
          split |-> Len(para) > max_size]

\* The end of chunk_paragraphs, after its loop
ParagraphsEnd(current_chunk, chunks) ==
    IF current_chunk # <<>> THEN Append(chunks, Strip(current_chunk)) ELSE chunks

RECURSIVE PackParagraphs(_, _, _, _, _)
PackParagraphs(paragraphs, max_size, overlap, current_chunk, chunks) ==
    IF paragraphs = <<>> THEN ParagraphsEnd(current_chunk, chunks)
    ELSE LET para == Strip(Head(paragraphs))
         IN IF para = <<>>
            THEN PackParagraphs(Tail(paragraphs), max_size, overlap, current_chunk, chunks)
            ELSE LET n == ParagraphNext(para, max_size, current_chunk, chunks)
                 IN IF n.split
                    THEN PackParagraphs(Tail(paragraphs), max_size, overlap, <<>>,
                             n.chunks \o chunk_fixed(para, max_size, overlap))
                    ELSE PackParagraphs(Tail(paragraphs), max_size, overlap,
                             n.current_chunk, n.chunks)

chunk_paragraphs(text, max_size, overlap) ==
    PackParagraphs(Split(text, ParagraphBreak), max_size, overlap, <<>>, <<>>)

\* chunk_text when the loops of its strategy come to an end
chunk_text(text, strategy) ==
    CASE strategy.method = "fixed" ->
            chunk_fixed(text, strategy.chunk_size, strategy.chunk_overlap)
      [] strategy.method = "sentence" ->
            chunk_sentences(text, strategy.chunk_size, strategy.chunk_overlap)
      [] OTHER ->
            chunk_paragraphs(text, strategy.chunk_size, strategy.chunk_overlap)

\* The strategy is built from the form fields, then chunk_text chooses the
\* chunker; the loops of chunk_fixed and chunk_paragraphs run one pass at a
\* time
chunk_text_call ==
    /\ fn.op = "chunk_text"
    /\ fn.pc = "call"
    /\ fn' = IF ~ValidStrategy(fn.strategy) THEN [fn EXCEPT !.pc = "rejected"]
             ELSE IF fn.strategy.method = "fixed"
             THEN [fn EXCEPT !.pc = "fixed", !.window = fn.text, !.start = 0,
                             !.caller = "done"]
             ELSE IF fn.strategy.method = "sentence"
             THEN [fn EXCEPT !.pc = "done",
                             !.chunks = chunk_sentences(fn.text, fn.strategy.chunk_size,
                                                        fn.strategy.chunk_overlap)]
             ELSE [fn EXCEPT !.pc = "paragraph",
                             !.paragraphs = Split(fn.text, ParagraphBreak)]
    /\ UNCHANGED <<kbVars, clock, memVars, inflight, reply>>

\* chunk_paragraphs called with its arguments as they are
chunk_paragraphs_call ==
    /\ fn.op = "chunk_paragraphs"
    /\ fn.pc = "call"
    /\ fn' = [fn EXCEPT !.pc = "paragraph",
                        !.paragraphs = Split(fn.text, ParagraphBreak)]
    /\ UNCHANGED <<kbVars, clock, memVars, inflight, reply>>

chunk_fixed_pass ==
    /\ fn.op \in {"chunk_text", "chunk_paragraphs"}
    /\ fn.pc = "fixed"
    /\ Len(fn.chunks) < MaxChunks
    /\ fn.start >= -MaxBack
    /\ fn' = IF fn.start < Len(fn.window)
             THEN LET w == FixedWindow(fn.window, fn.strategy.chunk_size,
                                       fn.strategy.chunk_overlap, fn.start, fn.chunks)
                  IN [fn EXCEPT !.start = w.start, !.chunks = w.chunks]
             ELSE [fn EXCEPT !.pc = fn.caller, !.current_chunk = <<>>]
    /\ UNCHANGED <<kbVars, clock, memVars, inflight, reply>>

chunk_paragraphs_pass ==
    /\ fn.op \in {"chunk_text", "chunk_paragraphs"}
    /\ fn.pc = "paragraph"
    /\ fn' = IF fn.paragraphs = <<>>
             THEN [fn EXCEPT !.pc = "done", !.current_chunk = <<>>,
                             !.chunks = ParagraphsEnd(fn.current_chunk, fn.chunks)]
             ELSE LET para == Strip(Head(fn.paragraphs))
                      n == ParagraphNext(para, fn.strategy.chunk_size,
                                         fn.current_chunk, fn.chunks)
                  IN IF para = <<>> THEN [fn EXCEPT !.paragraphs = Tail(fn.paragraphs)]
                     ELSE IF n.split
                     THEN [fn EXCEPT !.paragraphs = Tail(fn.paragraphs),
                                     !.chunks = n.chunks, !.pc = "fixed",
                                     !.window = para, !.start = 0,
                                     !.caller = "paragraph"]
                     ELSE [fn EXCEPT !.paragraphs = Tail(fn.paragraphs),
                                     !.chunks = n.chunks,
                                     !.current_chunk = n.current_chunk]
    /\ UNCHANGED <<kbVars, clock, memVars, inflight, reply>>

Blank(n) == [i \in 1..n |-> " "]

\* Texts of no, one and many characters, of three paragraphs of which the
\* last is longer than the smallest chunk size, of two sentences, of two
\* words with more blanks between them than a window holds, and of two
\* sentences and two paragraphs whose lengths add up to the smallest chunk
\* size
ChunkTexts ==
    {<<>>, XText(1), XText(ChunkSizeMin + 50),
     XText(50) \o Blank(ChunkSizeMin + 50) \o XText(10),
     XText(60) \o ParagraphBreak \o XText(30) \o ParagraphBreak \o XText(ChunkSizeMin + 50),
     XText(60) \o <<".", " ">> \o XText(60) \o <<".">>,
     XText(49) \o <<".", " ">> \o XText(49) \o <<".">>,
     XText(60) \o ParagraphBreak \o XText(40)}

ChunkStrategies ==
    [method : {"fixed", "sentence", "paragraph"},
     chunk_size : {ChunkSizeMin - 1, ChunkSizeMin},
     chunk_overlap : {0, 50, ChunkSizeMin, ChunkOverlapMax, ChunkOverlapMax + 1}]

\* Two paragraphs that fit together in 50 characters when the break between
\* them is not counted
AlphaParagraph ==
    <<"A", "l", "p", "h", "a", " ", "i", "s", " ", "a", " ", "v", "a", "l",
      "u", "e", ".", " ", "B", "e", "t", "a", " ", "i", "s", " ", "a", " ",
      "v", "a", "l", "u", "e", ".">>

GammaParagraph ==
    <<"G", "a", "m", "m", "a", " ", "d", "i", "f", "f", "e", "r", "s", ".">>

ExampleText == AlphaParagraph \o ParagraphBreak \o GammaParagraph

ExampleStrategy == [method |-> "paragraph", chunk_size |-> 50, chunk_overlap |-> 0]

ChunkCalls ==
    [op : {"chunk_text"}, pc : {"call"}, text : ChunkTexts, strategy : ChunkStrategies,
     chunks : {<<>>}, window : {<<>>}, start : {0}, paragraphs : {<<>>},
     current_chunk : {<<>>}, caller : {"done"}]
      \cup [op : {"chunk_text", "chunk_paragraphs"}, pc : {"call"},
             text : {ExampleText}, strategy : {ExampleStrategy},
             chunks : {<<>>}, window : {<<>>}, start : {0}, paragraphs : {<<>>},
             current_chunk : {<<>>}, caller : {"done"}]

InitChunk ==
    /\ clock = 0
    /\ sessions = <<>>
    /\ memOrder = <<>>
    /\ memObj = <<>>
    /\ nextMem = 1
    /\ nextSess = 1
    /\ inflight = [r \in Reqs |-> Idle]
    /\ reply = NoReply
    /\ InitKnowledge
    /\ fn \in ChunkCalls

NextChunk ==
    \/ chunk_text_call
    \/ chunk_paragraphs_call
    \/ chunk_fixed_pass
    \/ chunk_paragraphs_pass

SpecChunk == InitChunk /\ [][NextChunk]_vars

\* C10: a strategy whose chunk_overlap is not below its chunk_size never gets
\* past validation, and every pass of the fixed window loop moves the window
\* forward.
C10_ChunkingAdvances ==
    [][/\ (fn'.op = "chunk_text" /\ fn'.pc \notin {"call", "rejected"})
            => fn'.strategy.chunk_overlap < fn'.strategy.chunk_size
       /\ (fn.op = "chunk_text" /\ fn.pc = "fixed" /\ fn'.pc = "fixed")
            => fn'.start > fn.start]_vars

\* The windows chunk_fixed lays over a text when overlap < size: they start
\* at the multiples of size - overlap below the length of the text
FixedWindows(text, size, overlap) ==
    LET step == size - overlap
        n == IF text = <<>> THEN 0 ELSE (Len(text) - 1) \div step + 1
    IN [k \in 1..n |-> [start |-> (k - 1) * step, end |-> (k - 1) * step + size]]

\* C11: with chunk_size > overlap >= 0, consecutive windows of chunk_fixed
\* start chunk_size - overlap characters apart, the chunks returned are, in
\* order, the windows that are not blank, and every character of the text
\* that is not whitespace lies in the window of one of them.
C11_FixedCoversText ==
    [][(/\ fn.op = "chunk_text"
        /\ fn.pc = "fixed"
        /\ fn.strategy.chunk_overlap < fn.strategy.chunk_size) =>
          LET size == fn.strategy.chunk_size
              overlap == fn.strategy.chunk_overlap
              text == fn.window
              w == FixedWindows(text, size, overlap)
              stripped == [k \in DOMAIN w |-> Strip(PySlice(text, w[k].start, w[k].end))]
          IN /\ fn'.pc = "fixed" => fn'.start = fn.start + size - overlap
             /\ (fn'.pc = "done" /\ fn.strategy.method = "fixed") =>
                   /\ fn'.chunks = SelectSeq(stripped, LAMBDA c : c # <<>>)
                   /\ \A i \in 1..Len(text) :
                         text[i] \notin Whitespace =>
                            \E k \in DOMAIN w :
                               /\ w[k].start < i
                               /\ i <= w[k].end
                               /\ \E j \in DOMAIN fn'.chunks :
                                     fn'.chunks[j] = stripped[k]]_vars

\* A fixed chunking with an overlap has returned three chunks of a text some
\* of whose windows are blank
C11_Witness ==
    /\ fn.op = "chunk_text"
    /\ fn.pc = "done"
    /\ fn.strategy.method = "fixed"
    /\ fn.strategy.chunk_overlap > 0
    /\ Len(fn.chunks) >= 3
    /\ Len(fn.chunks) < Len(FixedWindows(fn.text, fn.strategy.chunk_size,
                                         fn.strategy.chunk_overlap))

\* C12: the text of the paragraphs 'Alpha is a value. Beta is a value.' and
\* 'Gamma differs.' with a blank line between them, chunked by paragraphs
\* with chunk_size 50, gives these two paragraphs as its two chunks.
C12_ExampleGivesTwoChunks ==
    (/\ fn.op \in {"chunk_text", "chunk_paragraphs"}
     /\ fn.text = ExampleText
     /\ fn.strategy = ExampleStrategy) =>
        /\ fn.pc # "rejected"
        /\ fn.pc = "done" => fn.chunks = <<AlphaParagraph, GammaParagraph>>

----------------------------------------------------------------------------
(* Knowledge base: collections, documents, chunks, the embedding provider  *)
(* and the vector index                                                    *)

\* The most collections and documents ever created
MaxCol == 2
MaxDoc == 2

\* Scores and thresholds are in tenths
ScoreScale == 10
RagScoreThreshold == 5

\* The vector of a response of the provider that holds no embedding
NoVector == <<>>

\* The returns of generate_embedding: the request to the provider failed
\* (httpx.HTTPError), or a list of vectors, one for each text
EmbedError == [ok |-> FALSE]

Embedded(vectors) == [ok |-> TRUE, vectors |-> vectors]

Dot(a, b) == SumTo([i \in DOMAIN a |-> a[i] * b[i]], Len(a))

\* np.linalg.norm, for the vectors of the model, whose norms are integers
Norm(v) == CHOOSE k \in 0..Dot(v, v) : k * k = Dot(v, v)

\* np.dot(a, b) / (norm(a) * norm(b)), for vectors that are not zero
Cosine(a, b) == (Dot(a, b) * ScoreScale) \div (Norm(a) * Norm(b))

\* float('nan'), the quotient numpy gives (with a RuntimeWarning, no
\* exception) when one of the norms is zero; it is held as a value of its own
\* that no score takes, and every comparison with it is false
NaN == -1000000

IsZero(v) == \A i \in DOMAIN v : v[i] = 0

Similarity(a, b) == IF IsZero(a) \/ IsZero(b) THEN NaN ELSE Cosine(a, b)

\* x < y and x >= y on floats
Less(x, y) == x # NaN /\ y # NaN /\ x < y

AtLeast(x, y) == x # NaN /\ y # NaN /\ x >= y

Reverse(s) == [i \in 1..Len(s) |-> s[Len(s) + 1 - i]]

\* list.sort of CPython for fewer than 64 items (listobject.c): count_run
\* finds the run the list starts with, binarysort inserts the other items
\* into it one by one; items are records with a score, compared with <
\* only.  RunLength is the n of count_run, BinarySearch the loop of
\* binarysort for one pivot.
RunLength(xs) ==
    IF Len(xs) < 2 THEN Len(xs)
    ELSE LET descending == Less(xs[2].score, xs[1].score)
             runs == {m \in 2..Len(xs) :
                         \A i \in 2..m :
                             Less(xs[i].score, xs[i - 1].score) = descending}
         IN CHOOSE m \in runs : \A k \in runs : k <= m

RECURSIVE BinarySearch(_, _, _, _)
BinarySearch(sorted, pivot, l, r) ==
    IF l >= r THEN l
    ELSE LET p == l + (r - l) \div 2
         IN IF Less(pivot.score, sorted[p + 1].score)
            THEN BinarySearch(sorted, pivot, l, p)
            ELSE BinarySearch(sorted, pivot, p + 1, r)

RECURSIVE BinarySort(_, _)
BinarySort(sorted, rest) ==
    IF rest = <<>> THEN sorted
    ELSE LET pivot == Head(rest)
             l == BinarySearch(sorted, pivot, 0, Len(sorted))
         IN BinarySort(SubSeq(sorted, 1, l) \o <<pivot>>
                         \o SubSeq(sorted, l + 1, Len(sorted)),
                       Tail(rest))

ListSort(xs) ==
    LET n == RunLength(xs)
        run == SubSeq(xs, 1, n)
        descending == n >= 2 /\ Less(xs[2].score, xs[1].score)
    IN BinarySort(IF descending THEN Reverse(run) ELSE run,
                  SubSeq(xs, n + 1, Len(xs)))

\* list.sort(reverse=True): the list is reversed, sorted, and reversed again
ListSortReverse(xs) == Reverse(ListSort(Reverse(xs)))

Chunk(doc_id, i, content, collection_id, embedding, filename) ==
    [chunk_id |-> <<doc_id, i>>, content |-> content, document_id |-> doc_id,
     collection_id |-> collection_id, embedding |-> embedding,
     filename |-> filename, chunk_index |-> i]

\* A point as upload_document prepares it for the index
Point(chunk) ==
    [chunk_id |-> chunk.chunk_id, document_id |-> chunk.document_id,
     content |-> chunk.content, filename |-> chunk.filename,
     vector |-> chunk.embedding]

SearchResult(chunk_id, document_id, content, score, filename) ==
    [chunk_id |-> chunk_id, document_id |-> document_id, content |-> content,
     score |-> score, filename |-> filename]

\* results.sort(key=lambda x: x.score, reverse=True): a stable sort
RECURSIVE SortByScore(_)
SortByScore(results) ==
    IF results = <<>> THEN <<>>
    ELSE LET sorted == SortByScore(SubSeq(results, 1, Len(results) - 1))
             last == results[Len(results)]
             before == {i \in 1..Len(sorted) : sorted[i].score >= last.score}
             k == IF before = {} THEN 0
                  ELSE CHOOSE i \in before : \A j \in before : i >= j
         IN SubSeq(sorted, 1, k) \o <<last>> \o SubSeq(sorted, k + 1, Len(sorted))

\* The loop of semantic_search over _chunks
RECURSIVE ScanChunks(_, _, _)
ScanChunks(stored, query_vector, score_threshold) ==
    IF stored = <<>> THEN <<>>
    ELSE LET chunk_data == Head(stored)
             rest == ScanChunks(Tail(stored), query_vector, score_threshold)
         IN IF chunk_data.embedding = NoVector THEN rest
            ELSE LET score == Similarity(query_vector, chunk_data.embedding)
                 IN IF AtLeast(score, score_threshold)
                    THEN <<SearchResult(chunk_data.chunk_id, chunk_data.document_id,
                                        chunk_data.content, score,
                                        chunk_data.filename)>> \o rest
                    ELSE rest

\* The in-process search: scan, sort, cut at limit
MemorySearch(stored, query_vector, limit, score_threshold) ==
    LET results == SortByScore(ScanChunks(stored, query_vector, score_threshold))
    IN SubSeq(results, 1, IF Len(results) < limit THEN Len(results) ELSE limit)

\* The answers the index may give to a search in a set of points: the
\* points at or above the threshold, best first, cut at limit; the order of
\* points of equal score is the index's choice
IndexAnswers(points, query_vector, limit, score_threshold) ==
    LET good == {p \in points : Cosine(query_vector, p.vector) >= score_threshold}
        n == IF Cardinality(good) < limit THEN Cardinality(good) ELSE limit
        score(p) == Cosine(query_vector, p.vector)
    IN {a \in [1..n -> good] :
            /\ \A i, j \in 1..n : i < j => a[i] # a[j] /\ score(a[i]) >= score(a[j])
            /\ \A p \in good : (\A i \in 1..n : a[i] # p) =>
                                  \A i \in 1..n : score(a[i]) >= score(p)}

UnitVector == <<1, 0>>

\* The size of the vectors of the provider (768 for the default model)
VectorSize == Len(UnitVector)

Collection(now) ==
    [document_count |-> 0, chunk_count |-> 0, created_at |-> now, updated_at |-> now]

Document(collection_id, filename, chunk_count, now, strategy) ==
    [collection_id |-> collection_id, filename |-> filename,
     chunk_count |-> chunk_count, created_at |-> now, chunking |-> strategy]

\* The uploaded files, by name
Files ==
    ("f" :> <<"a">>)
      @@ ("g" :> [i \in 1..60 |-> "y"] \o ParagraphBreak \o [i \in 1..60 |-> "z"])

\* ensure_collection_exists: an index that is reachable and does not hold
\* the collection creates it, unless the vector size is refused
EnsureCollection(idx, collection_id, vector_size, reachable) ==
    IF reachable /\ collection_id \notin DOMAIN idx /\ vector_size >= 1
    THEN idx @@ (collection_id :> [size |-> vector_size, points |-> {}])
    ELSE idx

\* store_vectors: an index that is reachable takes the batch when it holds
\* the collection and every vector has the size of the collection
StoreVectors(idx, collection_id, points, reachable) ==
    IF /\ reachable
       /\ collection_id \in DOMAIN idx
       /\ \A i \in DOMAIN points : Len(points[i].vector) = idx[collection_id].size
    THEN [idx EXCEPT ![collection_id].points = @ \cup Range(points)]
    ELSE idx

\* search_vectors: the answers of the index, and [] for a response that is
\* not 200 and for a request that fails
SearchVectors(collection_id, query_vector, limit, score_threshold, reachable) ==
    IF reachable /\ collection_id \in DOMAIN index
    THEN IndexAnswers(index[collection_id].points, query_vector, limit, score_threshold)
    ELSE {<<>>}

\* knowledge.py:515-523
FromIndex(qdrant_results, query_vector) ==
    [i \in DOMAIN qdrant_results |->
        SearchResult(qdrant_results[i].chunk_id, qdrant_results[i].document_id,
                     qdrant_results[i].content,
                     Cosine(query_vector, qdrant_results[i].vector),
                     qdrant_results[i].filename)]

\* The responses of semantic_search, given the outcome of the embedding of
\* the query and whether the index can be reached
SearchReturns(request, embedding, reachable) ==
    IF ~embedding.ok THEN {[status |-> 503, results |-> <<>>]}
    ELSE LET query_vector == IF embedding.vectors # <<>> THEN embedding.vectors[1]
                             ELSE NoVector
         IN IF query_vector = NoVector THEN {[status |-> 200, results |-> <<>>]}
            ELSE IF request.collection_id # NoId
            THEN {[status |-> 200, results |-> FromIndex(a, query_vector)] :
                    a \in SearchVectors(request.collection_id, query_vector,
                                        request.limit, request.score_threshold,
                                        reachable)}
            ELSE {[status |-> 200,
                   results |-> MemorySearch(chunkStore, query_vector, request.limit,
                                            request.score_threshold)]}

\* What semantic_search got from the index: it does not ask when the query
\* has no vector or no collection is given
IndexUse(request, embedding, reachable) ==
    IF ~embedding.ok \/ embedding.vectors[1] = NoVector \/ request.collection_id = NoId
    THEN "unused"
    ELSE IF reachable THEN "reached" ELSE "unreachable"

create_collection(reachable) ==
    /\ Ready
    /\ nextCol <= MaxCol
    /\ index' = EnsureCollection(index, nextCol, VectorSize, reachable)
    /\ collections' = collections @@ (nextCol :> Collection(clock))
    /\ nextCol' = nextCol + 1
    /\ reply' = [op |-> "create_collection", status |-> 200, collection_id |-> nextCol]
    /\ UNCHANGED <<clock, memVars, inflight, documents, chunkStore, nextDoc, fn>>

upload_document(r, req) ==
    /\ Ready
    /\ inflight[r] = Idle
    /\ nextDoc <= MaxDoc
    /\ IF req.collection_id \notin DOMAIN collections
       THEN /\ reply' = [op |-> "upload_document", status |-> 404, req |-> req]
            /\ UNCHANGED inflight
       ELSE /\ inflight' = [inflight EXCEPT ![r] =
                               [op |-> "upload_document", pc |-> "read", req |-> req]]
            /\ UNCHANGED reply
    /\ UNCHANGED <<clock, memVars, kbVars, fn>>

\* From the return of file.read() to the call of generate_embedding. A
\* strategy that does not pass validation ends the request; one on which
\* chunk_text does not return (SpecChunk) never gets further.
upload_document_read(r) ==
    LET p == inflight[r]
    IN /\ Ready
       /\ p.op = "upload_document"
       /\ p.pc = "read"
       /\ nextDoc <= MaxDoc
       /\ nextDoc' = nextDoc + 1
       /\ IF ~ValidStrategy(p.req.strategy)
          THEN /\ reply' = [op |-> "upload_document", status |-> 500, req |-> p.req]
               /\ inflight' = [inflight EXCEPT ![r] = Idle]
          ELSE /\ p.req.strategy.chunk_overlap < p.req.strategy.chunk_size
               /\ inflight' = [inflight EXCEPT ![r] =
                     [op |-> "upload_document", pc |-> "embed", req |-> p.req,
                      doc_id |-> nextDoc, now |-> clock,
                      chunks |-> chunk_text(Files[p.req.file], p.req.strategy),
                      embeddings |-> Embedded(<<>>)]]
               /\ UNCHANGED reply
       /\ UNCHANGED <<clock, memVars, collections, documents, chunkStore, index,
                      nextCol, fn>>

\* knowledge.py:429-448. The counters are those of the Collection object
\* the handler got at its start: when the collection has been deleted in
\* the meantime the object is in no store any more.
UploadFinish(r, p, idx) ==
    LET collection_id == p.req.collection_id
    IN /\ index' = idx
       /\ documents' = documents @@
             (p.doc_id :> Document(collection_id, <<p.req.file>>, Len(p.chunks),
                                   p.now, p.req.strategy))
       /\ collections' =
             IF collection_id \in DOMAIN collections
             THEN [collections EXCEPT
                      ![collection_id].document_count = @ + 1,
                      ![collection_id].chunk_count = @ + Len(p.chunks),
                      ![collection_id].updated_at = p.now]
             ELSE collections
       /\ reply' = [op |-> "upload_document", status |-> 200, req |-> p.req,
                    document_id |-> p.doc_id, chunks |-> Len(p.chunks),
                    embedding |-> p.embeddings]
       /\ inflight' = [inflight EXCEPT ![r] = Idle]

\* The chunks of an upload as they go to _chunks
NewChunks(p, embeddings) ==
    [i \in DOMAIN p.chunks |->
        Chunk(p.doc_id, i - 1, p.chunks[i], p.req.collection_id, embeddings[i],
              <<p.req.file>>)]

\* The return of generate_embedding: it raises 503 when a request to the
\* provider fails, and returns one vector for each chunk otherwise
upload_document_embedded(r, embeddings) ==
    LET p == inflight[r]
    IN /\ Ready
       /\ p.op = "upload_document"
       /\ p.pc = "embed"
       /\ IF ~embeddings.ok
          THEN /\ Len(p.chunks) > 0
               /\ reply' = [op |-> "upload_document", status |-> 503, req |-> p.req,
                            document_id |-> p.doc_id, chunks |-> Len(p.chunks),
                            embedding |-> EmbedError]
               /\ inflight' = [inflight EXCEPT ![r] = Idle]
               /\ UNCHANGED <<collections, documents, chunkStore, index>>
          ELSE /\ DOMAIN embeddings.vectors = DOMAIN p.chunks
               /\ chunkStore' = chunkStore \o NewChunks(p, embeddings.vectors)
               /\ IF p.chunks # <<>>
                  THEN /\ inflight' = [inflight EXCEPT ![r].pc = "ensure",
                                                       ![r].embeddings = embeddings]
                       /\ UNCHANGED <<collections, documents, index, reply>>
                  ELSE UploadFinish(r, [p EXCEPT !.embeddings = embeddings], index)
       /\ UNCHANGED <<clock, memVars, nextCol, nextDoc, fn>>

\* The return of ensure_collection_exists
upload_document_ensured(r, reachable) ==
    LET p == inflight[r]
    IN /\ Ready
       /\ p.op = "upload_document"
       /\ p.pc = "ensure"
       /\ index' = EnsureCollection(index, p.req.collection_id,
                                    Len(p.embeddings.vectors[1]), reachable)
       /\ inflight' = [inflight EXCEPT ![r].pc = "store"]
       /\ UNCHANGED <<clock, memVars, collections, documents, chunkStore, nextCol,
                      nextDoc, reply, fn>>

\* The return of store_vectors, whose result is not looked at, and the rest
\* of the handler
upload_document_stored(r, reachable) ==
    LET p == inflight[r]
        points == [i \in DOMAIN p.chunks |-> Point(NewChunks(p, p.embeddings.vectors)[i])]
    IN /\ Ready
       /\ p.op = "upload_document"
       /\ p.pc = "store"
       /\ UploadFinish(r, p, StoreVectors(index, p.req.collection_id, points, reachable))
       /\ UNCHANGED <<clock, memVars, chunkStore, nextCol, nextDoc, fn>>

delete_collection(r, collection_id) ==
    /\ Ready
    /\ inflight[r] = Idle
    /\ IF collection_id \notin DOMAIN collections
       THEN /\ reply' = [op |-> "delete_collection", status |-> 404,
                         collection_id |-> collection_id]
            /\ UNCHANGED inflight
       ELSE /\ inflight' = [inflight EXCEPT ![r] =
                               [op |-> "delete_collection", pc |-> "index",
                                collection_id |-> collection_id]]
            /\ UNCHANGED reply
    /\ UNCHANGED <<clock, memVars, kbVars, fn>>

\* The return of the DELETE sent to the index, and the rest of the handler;
\* `del _collections[collection_id]` raises KeyError when another request
\* has deleted the collection in the meantime
\* A cascade that leaves the chunks of the collection where they are
ChunksOutsideKeep(stored, collection_id) == stored

\* _chunks without the chunks of a collection (knowledge.py:357-359)
ChunksOutside(stored, collection_id) ==
    SelectSeq(stored, LAMBDA ch : ch.collection_id # collection_id)

delete_collection_indexed(r, reachable) ==
    LET p == inflight[r]
        c == p.collection_id
        doc_ids == {d \in DOMAIN documents : documents[d].collection_id = c}
    IN /\ Ready
       /\ p.op = "delete_collection"
       /\ p.pc = "index"
       /\ index' = IF reachable THEN Restrict(index, DOMAIN index \ {c}) ELSE index
       /\ documents' = Restrict(documents, DOMAIN documents \ doc_ids)
       /\ chunkStore' = ChunksOutside(chunkStore, c)
       /\ collections' = Restrict(collections, DOMAIN collections \ {c})
       /\ reply' = [op |-> "delete_collection",
                    status |-> IF c \in DOMAIN collections THEN 200 ELSE 500,
                    collection_id |-> c, doc_ids |-> doc_ids]
       /\ inflight' = [inflight EXCEPT ![r] = Idle]
       /\ UNCHANGED <<clock, memVars, nextCol, nextDoc, fn>>

\* knowledge.py:474-477
\* An update that forgets the chunks of the document
UncountDocumentOnly(cols, document) ==
    IF document.collection_id \in DOMAIN cols
    THEN [cols EXCEPT ![document.collection_id].document_count = @ - 1]
    ELSE cols

Uncount(cols, document) ==
    IF document.collection_id \in DOMAIN cols
    THEN [cols EXCEPT ![document.collection_id].document_count = @ - 1,
                      ![document.collection_id].chunk_count =
                          @ - document.chunk_count]
    ELSE cols

delete_document(document_id) ==
    /\ Ready
    /\ IF document_id \notin DOMAIN documents
       THEN /\ reply' = [op |-> "delete_document", status |-> 404,
                         document_id |-> document_id]
            /\ UNCHANGED <<collections, documents, chunkStore>>
       ELSE LET document == documents[document_id]
            IN /\ chunkStore' = SelectSeq(chunkStore,
                                     LAMBDA ch : ch.document_id # document_id)
               /\ collections' = Uncount(collections, document)
               /\ documents' = Restrict(documents, DOMAIN documents \ {document_id})
               /\ reply' = [op |-> "delete_document", status |-> 200,
                            document_id |-> document_id]
    /\ UNCHANGED <<clock, memVars, inflight, index, nextCol, nextDoc, fn>>

\* semantic_search reads the stores at one point only, after the query is
\* embedded: the scan of _chunks, or the request to the index
semantic_search(request, embedding, reachable) ==
    /\ Ready
    /\ \E ret \in SearchReturns(request, embedding, reachable) :
          reply' = [op |-> "semantic_search", status |-> ret.status,
                    req |-> request, embedding |-> embedding,
                    index |-> IndexUse(request, embedding, reachable),
                    results |-> ret.results]
    /\ UNCHANGED <<clock, memVars, kbVars, inflight, fn>>

get_rag_context(request, embedding, reachable) ==
    /\ Ready
    /\ \E ret \in SearchReturns([collection_id |-> request.collection_id,
                                 limit |-> request.limit,
                                 score_threshold |-> RagScoreThreshold],
                                embedding, reachable) :
          reply' = [op |-> "get_rag_context", status |-> ret.status,
                    req |-> request, embedding |-> embedding,
                    index |-> IndexUse(request, embedding, reachable),
                    results |-> IF ret.status = 200
                                THEN RagContext(ret.results, request.max_tokens,
                                                request.include_sources)
                                ELSE <<>>]
    /\ UNCHANGED <<clock, memVars, kbVars, inflight, fn>>

----------------------------------------------------------------------------
(* Specification of the knowledge base, its requests served in turn        *)

ChunkVectors == {UnitVector, <<3, 4>>}

QueryVectors == {UnitVector}

\* The returns of generate_embedding for a list of n texts
Embeddings(n) ==
    {Embedded(e) : e \in [1..n -> ChunkVectors \cup {NoVector}]} \cup {EmbedError}

\* The returns of generate_embedding for the text of a query
QueryEmbeddings ==
    {Embedded(<<v>>) : v \in QueryVectors \cup {NoVector}} \cup {EmbedError}

\* The number of chunks of the upload that waits for its embeddings
PendingChunks(r) ==
    IF inflight[r].op = "upload_document" /\ inflight[r].pc = "embed"
    THEN Len(inflight[r].chunks) ELSE 0

UploadRequests ==
    [collection_id : 1..MaxCol, file : DOMAIN Files,
     strategy : {[method |-> "paragraph", chunk_size |-> ChunkSizeMin,
                  chunk_overlap |-> 0]}]

SearchRequests ==
    [collection_id : {NoId, 1}, limit : {1, 2}, score_threshold : {5, 8}]

RagRequests ==
    [collection_id : {NoId, 1}, limit : {2}, max_tokens : {RagMinTokens},
     include_sources : {TRUE}]

NextKb ==
    \/ Deliver
    \/ \E reachable \in BOOLEAN : Quiet /\ create_collection(reachable)
    \/ \E req \in UploadRequests : Quiet /\ upload_document(1, req)
    \/ upload_document_read(1)
    \/ \E embeddings \in Embeddings(PendingChunks(1)) :
          upload_document_embedded(1, embeddings)
    \/ \E reachable \in BOOLEAN : upload_document_ensured(1, reachable)
    \/ \E reachable \in BOOLEAN : upload_document_stored(1, reachable)
    \/ \E c \in 1..MaxCol : Quiet /\ delete_collection(1, c)
    \/ \E reachable \in BOOLEAN : delete_collection_indexed(1, reachable)
    \/ \E d \in 1..MaxDoc : Quiet /\ delete_document(d)
    \/ \E request \in SearchRequests, reachable \in BOOLEAN,
          embedding \in QueryEmbeddings :
          Quiet /\ semantic_search(request, embedding, reachable)
    \/ \E request \in RagRequests, reachable \in BOOLEAN,
          embedding \in QueryEmbeddings :
          Quiet /\ get_rag_context(request, embedding, reachable)

SpecKb == Init /\ [][NextKb]_vars

\* The vector of the query of a search that got one
QueryVector == reply.embedding.vectors[1]

QueryEmbedded == reply.embedding.ok /\ QueryVector # NoVector

\* The stored chunks a search looks in: those of its collection, or all
InScope(request) ==
    SelectSeq(chunkStore, LAMBDA ch : request.collection_id = NoId
                                        \/ ch.collection_id = request.collection_id)

\* C6: the results of semantic_search are at or above the threshold, in
\* non-increasing order of score, at most limit, and no stored chunk that is
\* left out and meets the threshold scores higher than a returned one.
C6_SearchIsTopK ==
    (reply.op = "semantic_search" /\ reply.status = 200 /\ QueryEmbedded) =>
        LET res == reply.results
            stored == InScope(reply.req)
        IN /\ \A i \in DOMAIN res : res[i].score >= reply.req.score_threshold
           /\ \A i, j \in DOMAIN res : i < j => res[i].score >= res[j].score
           /\ Len(res) <= reply.req.limit
           /\ \A k \in DOMAIN stored :
                 (/\ stored[k].embedding # NoVector
                  /\ \A i \in DOMAIN res : res[i].chunk_id # stored[k].chunk_id
                  /\ Cosine(QueryVector, stored[k].embedding) >= reply.req.score_threshold)
                 => \A i \in DOMAIN res :
                        res[i].score >= Cosine(QueryVector, stored[k].embedding)

\* C7: a search in a collection that cannot reach the index returns what the
\* in-process scan of the chunks of that collection returns.
C7_FallbackScan ==
    (reply.op = "semantic_search" /\ reply.index = "unreachable") =>
        /\ reply.status = 200
        /\ reply.results = MemorySearch(InScope(reply.req), QueryVector,
                                        reply.req.limit, reply.req.score_threshold)

\* C8: when the query gets no embedding (the request to the provider fails or
\* the vector is empty), semantic_search returns no result and
\* get_rag_context an empty context, and neither returns an error.
C8_EmbeddingFailureIsEmpty ==
    (reply.op \in {"semantic_search", "get_rag_context"} /\ ~QueryEmbedded) =>
        /\ reply.status = 200
        /\ reply.op = "semantic_search" => reply.results = <<>>
        /\ reply.op = "get_rag_context" =>
              reply.results.results = <<>> /\ reply.results.context_text = <<>>

\* C9: an upload some of whose chunks get no embedding is not an error: the
\* Document is there with chunk_count the number of chunks of the chunker,
\* the counters of the collection count it, and the index holds none of its
\* chunks without a vector.
C9_PartialEmbeddingIsNotAnError ==
    (/\ reply.op = "upload_document"
     /\ reply.status # 404
     /\ ~reply.embedding.ok
          \/ \E i \in DOMAIN reply.embedding.vectors :
                reply.embedding.vectors[i] = NoVector) =>
        /\ reply.status = 200
        /\ reply.document_id \in DOMAIN documents
        /\ documents[reply.document_id].chunk_count = reply.chunks
        /\ reply.req.collection_id \in DOMAIN collections =>
              /\ collections[reply.req.collection_id].document_count >= 1
              /\ collections[reply.req.collection_id].chunk_count >= reply.chunks
        /\ \A c \in DOMAIN index : \A pt \in index[c].points :
              pt.document_id = reply.document_id => pt.vector # NoVector

\* C13: a document ingested again (same file, collection and chunking
\* strategy) gets the chunk ids of its first ingestion: two stored chunks of
\* the same file, collection and ordinal have the same id.
C13_ReingestionKeepsChunkIds ==
    \A i, j \in DOMAIN chunkStore :
        (/\ chunkStore[i].filename = chunkStore[j].filename
         /\ chunkStore[i].content = chunkStore[j].content
         /\ chunkStore[i].collection_id = chunkStore[j].collection_id
         /\ chunkStore[i].chunk_index = chunkStore[j].chunk_index)
        => chunkStore[i].chunk_id = chunkStore[j].chunk_id

----------------------------------------------------------------------------
(* Specification of ingestion and deletion in two collections, requests    *)
(* served in turn                                                          *)

NextCascade ==
    \/ Deliver
    \/ \E reachable \in BOOLEAN : Quiet /\ create_collection(reachable)
    \/ \E req \in UploadRequests : Quiet /\ upload_document(1, req)
    \/ upload_document_read(1)
    \/ \E embeddings \in {Embedded([i \in 1..PendingChunks(1) |-> UnitVector]), EmbedError} :
          upload_document_embedded(1, embeddings)
    \/ \E reachable \in BOOLEAN : upload_document_ensured(1, reachable)
    \/ \E reachable \in BOOLEAN : upload_document_stored(1, reachable)
    \/ \E c \in 1..MaxCol : Quiet /\ delete_collection(1, c)
    \/ \E reachable \in BOOLEAN : delete_collection_indexed(1, reachable)
    \/ \E d \in 1..MaxDoc : Quiet /\ delete_document(d)

SpecCascade == Init /\ [][NextCascade]_vars

\* C14: when delete_collection(c) completes, c is gone, no Document and no
\* chunk of c is left, and the Documents and chunks of the other collections
\* are as they were.
C14_DeleteCollectionCascades ==
    [][(reply'.op = "delete_collection" /\ reply'.status = 200 /\ reply # reply') =>
          LET c == reply'.collection_id
              others == {d \in DOMAIN documents : documents[d].collection_id # c}
          IN /\ c \notin DOMAIN collections'
             /\ \A d \in DOMAIN documents' : documents'[d].collection_id # c
             /\ \A i \in DOMAIN chunkStore' : chunkStore'[i].collection_id # c
             /\ DOMAIN documents' = others
             /\ \A d \in others : documents'[d] = documents[d]
             /\ chunkStore' = SelectSeq(chunkStore, LAMBDA ch : ch.collection_id # c)]_vars

\* A collection with a Document has been deleted while a Document and a
\* chunk of another collection are in the store
C14_Witness ==
    /\ reply.op = "delete_collection"
    /\ reply.status = 200
    /\ reply.doc_ids # {}
    /\ documents # <<>>
    /\ chunkStore # <<>>

----------------------------------------------------------------------------
(* search_memories: suspends in generate_embedding for the query, then     *)
(* ranks by similarity, or by keyword when the provider gave no vector     *)

\* Weights of similarity * (0.7 + 0.3 * importance), importance in tenths
RankBase == 70

RankPerTenth == 3

\* Field(default=10, ge=1, le=50) of MemorySearchRequest.limit
SearchLimitMin == 1

SearchLimitMax == 50

\* No time_range_hours, types, session_id or agent_id in the request
NoHours == 0

ValidSearchRequest(request) ==
    /\ SearchLimitMin <= request.limit /\ request.limit <= SearchLimitMax
    /\ ImportanceInRange(request.min_importance)

\* str.lower() on the letters of the texts
LowerChar(ch) == IF ch = "A" THEN "a" ELSE ch

Lower(chars) == [i \in DOMAIN chars |-> LowerChar(chars[i])]

\* kw in content_lower
Contains(kw, content) ==
    \E i \in 0..(Len(content) - Len(kw)) : SubSeq(content, i + 1, i + Len(kw)) = kw

\* The filters of the loop of search_memories
SemanticFilter(memory, request, now) ==
    /\ ~(request.types # {} /\ memory.type \notin request.types)
    /\ ~(request.session_id # NoId /\ memory.session_id # request.session_id)
    /\ ~(request.agent_id # NoId /\ memory.agent_id # request.agent_id)
    /\ ~(memory.importance < request.min_importance)
    /\ ~(/\ request.time_range_hours # NoHours
          /\ memory.timestamp < now - request.time_range_hours * HourTicks)

\* The filters of the loop of keyword_search
KeywordFilter(memory, request) ==
    /\ ~(request.types # {} /\ memory.type \notin request.types)
    /\ ~(request.session_id # NoId /\ memory.session_id # request.session_id)
    /\ ~(request.agent_id # NoId /\ memory.agent_id # request.agent_id)
    /\ ~(memory.importance < request.min_importance)

\* sum(1 for kw in keywords if kw in content_lower); the query is held as
\* the sequence of its words
\* A count that takes every word of the query for a match
MatchesAll(memory, query) == Len(query)

Matches(memory, query) ==
    Cardinality({i \in DOMAIN query :
        Contains(Lower(Texts[query[i]]), Lower(Texts[memory.content]))})

Scored(memory_id, score) == [memory_id |-> memory_id, score |-> score]

\* The loop of search_memories over _memories.values()
RECURSIVE ScanMemories(_, _, _, _, _)
ScanMemories(order, obj, request, query_embedding, now) ==
    IF order = <<>> THEN <<>>
    ELSE LET memory == obj[Head(order)]
             rest == ScanMemories(Tail(order), obj, request, query_embedding, now)
             score == Similarity(query_embedding, memory.embedding)
         IN IF SemanticFilter(memory, request, now) /\ memory.embedding # NoVector
            THEN <<Scored(Head(order),
                          IF score = NaN THEN NaN
                          ELSE score * (RankBase + RankPerTenth * memory.importance))>>
                   \o rest
            ELSE rest

\* The loop of keyword_search over _memories.values()
RECURSIVE ScanKeywords(_, _, _)
ScanKeywords(order, obj, request) ==
    IF order = <<>> THEN <<>>
    ELSE LET memory == obj[Head(order)]
             rest == ScanKeywords(Tail(order), obj, request)
             matches == Matches(memory, request.query)
         IN IF KeywordFilter(memory, request) /\ matches > 0
            THEN <<Scored(Head(order), matches * memory.importance)>> \o rest
            ELSE rest

\* results.sort(..., reverse=True); [r[0] for r in results[:request.limit]]
TopIds(results, limit) ==
    LET sorted == ListSortReverse(results)
        n == IF Len(sorted) < limit THEN Len(sorted) ELSE limit
    IN [i \in 1..n |-> sorted[i].memory_id]

keyword_search(order, obj, request) ==
    TopIds(ScanKeywords(order, obj, request), request.limit)

search_memories(r, request) ==
    /\ Ready
    /\ inflight[r] = Idle
    /\ IF ~ValidSearchRequest(request)
       THEN /\ reply' = [op |-> "search_memories", status |-> 422]
            /\ UNCHANGED inflight
       ELSE /\ inflight' = [inflight EXCEPT ![r] =
                   [op |-> "search_memories", pc |-> "embed", request |-> request]]
            /\ UNCHANGED reply
    /\ memObj' = Collect(memObj, memOrder, inflight', reply')
    /\ UNCHANGED <<kbVars, fn, clock, sessions, memOrder, nextMem, nextSess>>

search_memories_embedded(r, query_embedding) ==
    /\ Ready
    /\ inflight[r].op = "search_memories"
    /\ LET request == inflight[r].request
           keyword == query_embedding = NoVector
           results == IF keyword
                      THEN keyword_search(memOrder, memObj, request)
                      ELSE TopIds(ScanMemories(memOrder, memObj, request,
                                               query_embedding, clock),
                                  request.limit)
       IN reply' = [op |-> "search_memories", status |-> 200,
                    request |-> request, now |-> clock,
                    query_embedding |-> query_embedding,
                    mode |-> IF keyword THEN "keyword" ELSE "semantic",
                    results |-> results]
    /\ inflight' = [inflight EXCEPT ![r] = Idle]
    /\ memObj' = Collect(memObj, memOrder, inflight', reply')
    /\ UNCHANGED <<kbVars, fn, clock, sessions, memOrder, nextMem, nextSess>>

\* Searches by kind, importance and age; by session, for a word that not
\* every text holds and for no word; with a limit out of range
MemorySearchRequests ==
    [query : {<<"A", "b">>}, types : {{}, {"session"}}, session_id : {NoId},
     agent_id : {NoId}, limit : {1}, min_importance : {ImportanceMin, 5},
     time_range_hours : {NoHours, 1}]
      \cup [query : {<<"A", "b">>, <<>>}, types : {{}}, session_id : {NoId, 1},
             agent_id : {NoId}, limit : {2}, min_importance : {ImportanceMin},
             time_range_hours : {NoHours}]
      \cup [query : {<<"b">>}, types : {{}}, session_id : {NoId},
             agent_id : {NoId}, limit : {0, 2}, min_importance : {ImportanceMin},
             time_range_hours : {NoHours}]

\* Writes of two kinds, importances and sessions
SearchStoreRequests ==
    [content : {"Ab"}, type : {"session"}, importance : {2, 5},
     session_id : {1}, agent_id : {NoId}, auto_summarize : {FALSE}, metadata : {NoMetadata}]
      \cup [content : {"a"}, type : {"episodic"}, importance : {5},
             session_id : {2}, agent_id : {NoId}, auto_summarize : {FALSE}, metadata : {NoMetadata}]

\* What the provider returns for a text: a vector, the zero vector among
\* them, or nothing when the request failed
TextEmbeddings == {UnitVector, <<3, 4>>, <<0, 0>>, NoVector}

NextSearch ==
    \/ Deliver
    \/ Tick
    \/ \E req \in SearchStoreRequests : Quiet /\ store_memory(1, req)
    \/ \E embedding \in TextEmbeddings : store_memory_embedded(1, embedding)
    \/ \E request \in MemorySearchRequests : Quiet /\ search_memories(1, request)
    \/ \E query_embedding \in {UnitVector, NoVector} :
           search_memories_embedded(1, query_embedding)

SpecSearch == Init /\ [][NextSearch]_vars

\* The filter predicate of a search, as the request states it
SearchFilter(memory, request, now) ==
    /\ (request.types # {} => memory.type \in request.types)
    /\ (request.session_id # NoId => memory.session_id = request.session_id)
    /\ (request.agent_id # NoId => memory.agent_id = request.agent_id)
    /\ memory.importance >= request.min_importance
    /\ (request.time_range_hours # NoHours =>
           memory.timestamp >= now - request.time_range_hours * HourTicks)

\* C18: in semantic mode and in keyword mode alike, every entry that
\* search_memories returns satisfies the filters of the request: kind,
\* session, agent, least importance and age.
C18_BothModesFilterAlike ==
    (reply.op = "search_memories" /\ reply.status = 200) =>
        \A i \in DOMAIN reply.results :
            SearchFilter(memObj[reply.results[i]], reply.request, reply.now)

----------------------------------------------------------------------------
(* Specification of sessions and memories together, requests served in     *)
(* turn                                                                    *)

\* Session-kind writes into sessions that exist; episodic entries come from
\* promotion
SessionStoreRequests ==
    [content : {"a"}, type : {"session"}, importance : {5},
     session_id : {1, 2}, agent_id : {NoId}, auto_summarize : {FALSE}, metadata : {NoMetadata}]

SessionConsolidationRequests ==
    [session_id : {1}, max_age_hours : {MinAgeHours}, importance_threshold : {3}]

NextSessions ==
    \/ Deliver
    \/ Tick
    \/ Quiet /\ create_session(NoId)
    \/ \E session_id \in 1..MaxSess : Quiet /\ delete_session(session_id)
    \/ \E req \in {q \in SessionStoreRequests : q.session_id < nextSess} :
           Quiet /\ store_memory(1, req)
    \/ store_memory_embedded(1, UnitVector)
    \/ \E memory_id \in 1..nextMem : Quiet /\ delete_memory(memory_id)
    \/ \E memory_id \in 1..nextMem : Quiet /\ update_importance(memory_id, 2)
    \/ \E req \in SessionConsolidationRequests : Quiet /\ consolidate_memories(1, req)
    \/ consolidate_memories_summarized(1, "s")

SpecSessions == Init /\ [][NextSessions]_vars

\* C15: delete_session(s) removes the session s and the session-kind entries
\* of s, and nothing else: the other entries (the episodic entries promoted
\* from s among them) and the other sessions stay as they were.
C15_DeleteSessionFrame ==
    [][(reply'.op = "delete_session" /\ reply'.status = 200 /\ reply # reply') =>
          LET s == reply'.session_id
          IN /\ s \notin DOMAIN sessions'
             /\ DOMAIN sessions' = DOMAIN sessions \ {s}
             /\ \A t \in DOMAIN sessions' : sessions'[t] = sessions[t]
             /\ memOrder' = SelectSeq(memOrder, LAMBDA mid :
                                ~(memObj[mid].type = "session"
                                    /\ memObj[mid].session_id = s))
             /\ \A mid \in Range(memOrder') : memObj'[mid] = memObj[mid]]_vars

\* A session has been deleted with one of its session-kind entries while an
\* episodic entry promoted from it is in the store
C15_Witness ==
    /\ reply.op = "delete_session"
    /\ reply.status = 200
    /\ reply.memories_deleted >= 1
    /\ \E mid \in Range(memOrder) :
          /\ memObj[mid].type = "episodic"
          /\ memObj[mid].promoted_from # NoId
          /\ memObj[mid].session_id = reply.session_id

----------------------------------------------------------------------------
(* Ids that are not in the store                                           *)

\* C16: an operation that names an id that is not in the store is answered
\* with Not Found and changes no store; here, a valid store_memory whose
\* session_id names no session is answered 404 and adds no entry.
C16_UnknownSessionIsNotFound ==
    [][(/\ reply'.op = "store_memory"
        /\ reply' # reply
        /\ ValidStoreRequest(reply'.req)
        /\ reply'.req.session_id # NoId
        /\ reply'.req.session_id \notin DOMAIN sessions)
          => /\ reply'.status = 404
             /\ memOrder' = memOrder]_vars

----------------------------------------------------------------------------
(* The counter of a session                                                *)

\* A store_memory of session s has just completed
Wrote(s) ==
    /\ reply'.op = "store_memory"
    /\ reply' # reply
    /\ reply'.status = 200
    /\ reply'.req.session_id = s

\* C17: a session starts with message_count 0; every store_memory that
\* completes with the id of the session adds exactly 1 to it, and no other
\* operation changes it, so that message_count is the number of such writes
\* since the session was created.
C17_MessageCountCountsWrites ==
    [][/\ \A s \in DOMAIN sessions' \ DOMAIN sessions :
             sessions'[s].message_count = 0
       /\ \A s \in DOMAIN sessions \cap DOMAIN sessions' :
             sessions'[s].message_count =
                 sessions[s].message_count + (IF Wrote(s) THEN 1 ELSE 0)]_vars

\* The second write of a session has completed while another session has
\* seen none
C17_Witness ==
    /\ reply.op = "store_memory"
    /\ reply.status = 200
    /\ reply.req.session_id \in DOMAIN sessions
    /\ sessions[reply.req.session_id].message_count = 2
    /\ \E t \in DOMAIN sessions : sessions[t].message_count = 0

----------------------------------------------------------------------------
(* What a promotion copies and what a consolidation pass leaves alone      *)

\* The entries a step has added by promotion
NewPromoted ==
    {e \in Range(memOrder') \ Range(memOrder) : memObj'[e].promoted_from # NoId}

\* A pass is suspended in the Summarizer for the candidate memory_id
SummarizingFor(memory_id) ==
    \E r \in Reqs :
        /\ inflight[r].op = "consolidate_memories"
        /\ inflight[r].pc = "summarize"
        /\ inflight[r].candidates[inflight[r].idx] = memory_id

\* C19: an episodic entry created by consolidation has the content,
\* timestamp, session id, agent id, importance and embedding of the session
\* entry it is promoted from, a fresh id, the metadata of the origin and the
\* id of the origin as back-reference; its summary is the summary of the
\* origin when the origin has one, and the Summarizer is called only when it
\* has none.
C19_PromotionCopiesOrigin ==
    [][\A e \in NewPromoted :
          LET new == memObj'[e]
              origin_id == new.promoted_from
          IN /\ origin_id \in Range(memOrder)
             /\ e # origin_id
             /\ e \notin DOMAIN memObj
             /\ e >= nextMem
             /\ LET origin == memObj[origin_id]
                IN /\ origin.type = "session"
                   /\ new.type = "episodic"
                   /\ new.content = origin.content
                   /\ new.timestamp = origin.timestamp
                   /\ new.session_id = origin.session_id
                   /\ new.agent_id = origin.agent_id
                   /\ new.importance = origin.importance
                   /\ new.embedding = origin.embedding
                   /\ new.metadata = origin.metadata
                   /\ IF origin.summary # NoText
                      THEN new.summary = origin.summary /\ ~SummarizingFor(origin_id)
                      ELSE SummarizingFor(origin_id)]_vars

\* Both promotions are in the store: one that reused the summary written
\* with the entry, one whose summary the Summarizer gave during the pass;
\* the origin of one of them carried metadata
C19_Witness ==
    \E e, f \in Range(memOrder) :
        /\ memObj[e].promoted_from # NoId
        /\ memObj[f].promoted_from # NoId
        /\ memObj[e].content = "long" /\ memObj[e].summary = "s"
        /\ memObj[e].metadata = SourceTag
        /\ memObj[f].content = "a" /\ memObj[f].summary = "s"
        /\ memObj[f].metadata = NoMetadata

\* The request and cutoff of the passes that run in a step: a pass that
\* starts, resumes, suspends or returns
ActingPasses ==
    {<<inflight[r].req, inflight[r].cutoff>> :
        r \in {q \in Reqs : /\ inflight[q].op = "consolidate_memories"
                            /\ inflight'[q] # inflight[q]}}
      \cup {<<inflight'[r].req, inflight'[r].cutoff>> :
              r \in {q \in Reqs : /\ inflight'[q].op = "consolidate_memories"
                                  /\ inflight'[q] # inflight[q]}}
      \cup (IF /\ reply' # reply
               /\ reply'.op = "consolidate_memories"
               /\ reply'.status = 200
            THEN {<<reply'.req, reply'.cutoff>>} ELSE {})

\* What a pass with this request and cutoff may remove
Selectable(memory, req, cutoff) ==
    /\ memory.type = "session"
    /\ memory.timestamp < cutoff
    /\ (req.session_id = NoId \/ memory.session_id = req.session_id)

\* C20: a consolidation pass leaves unchanged the episodic and semantic
\* entries, the session-kind entries that are not strictly older than the
\* cutoff, the session-kind entries of other sessions when a session filter
\* is given, and every Session record; it only removes candidates and adds
\* promoted episodic entries.
C20_ConsolidationFrame ==
    [][\A pass \in ActingPasses :
          LET req == pass[1]
              cutoff == pass[2]
          IN /\ sessions' = sessions
             /\ \A id \in Range(memOrder) :
                   ~Selectable(memObj[id], req, cutoff)
                     => id \in Range(memOrder') /\ memObj'[id] = memObj[id]
             /\ \A id \in Range(memOrder) \cap Range(memOrder') :
                   memObj'[id] = memObj[id]
             /\ \A id \in Range(memOrder') \ Range(memOrder) :
                   /\ memObj'[id].type = "episodic"
                   /\ memObj'[id].promoted_from \in Range(memOrder)
                   /\ Selectable(memObj[memObj'[id].promoted_from], req, cutoff)]_vars

\* A pass filtered to one session has returned after promoting an entry,
\* and an old session-kind entry of another session is in the store next
\* to a Session record
C20_Witness ==
    /\ Reported
    /\ reply.req.session_id # NoId
    /\ reply.promoted_to_episodic >= 1
    /\ sessions # <<>>
    /\ \E id \in Range(memOrder) :
          /\ memObj[id].type = "session"
          /\ memObj[id].timestamp < reply.cutoff
          /\ memObj[id].session_id # reply.req.session_id

----------------------------------------------------------------------------
(* The lengths of the passages of the sentence and paragraph strategies    *)

\* C21: a passage of the sentence strategy or of the paragraph strategy is
\* no longer than max_size, separators included; only a passage that is one
\* single sentence longer than max_size may exceed it, and no passage of
\* the paragraph strategy does.
C21_PassagesWithinMaxSize ==
    (/\ fn.op = "chunk_text"
     /\ fn.pc = "done"
     /\ fn.strategy.method \in {"sentence", "paragraph"}) =>
        \A i \in DOMAIN fn.chunks :
            \/ Len(fn.chunks[i]) <= fn.strategy.chunk_size
            \/ /\ fn.strategy.method = "sentence"
               /\ \E k \in DOMAIN SplitSentences(fn.text) :
                     fn.chunks[i] = Strip(SplitSentences(fn.text)[k])

----------------------------------------------------------------------------
(* The ranking of search_memories                                          *)

\* A semantic search, or a keyword search, has just returned
SemanticReply ==
    reply.op = "search_memories" /\ reply.status = 200 /\ reply.mode = "semantic"

KeywordReply ==
    reply.op = "search_memories" /\ reply.status = 200 /\ reply.mode = "keyword"

\* The entries of the store that pass the filters of the returned search
\* and have an embedding
RankedCandidates ==
    {id \in Range(memOrder) :
        /\ SearchFilter(memObj[id], reply.request, reply.now)
        /\ memObj[id].embedding # NoVector}

\* similarity * (0.7 + 0.3 * importance) of a stored entry for the query of
\* the returned search
RankKey(id) ==
    LET similarity == Similarity(reply.query_embedding, memObj[id].embedding)
    IN IF similarity = NaN THEN NaN
       ELSE similarity * (RankBase + RankPerTenth * memObj[id].importance)

\* C22: in semantic mode search_memories returns the top `limit` entries among
\* the filtered candidates that have an embedding, ordered non-increasing by
\* similarity * (0.7 + 0.3 * importance); an entry without an embedding is
\* never returned.
C22_SemanticTopLimit ==
    SemanticReply =>
        LET results == reply.results
            returned == Range(results)
            limit == reply.request.limit
        IN /\ returned \subseteq RankedCandidates
           /\ \A i, j \in DOMAIN results : i # j => results[i] # results[j]
           /\ Len(results) = IF Cardinality(RankedCandidates) < limit
                             THEN Cardinality(RankedCandidates) ELSE limit
           /\ \A i, j \in DOMAIN results :
                 i < j => AtLeast(RankKey(results[i]), RankKey(results[j]))
           /\ \A id \in returned, other \in RankedCandidates \ returned :
                 AtLeast(RankKey(id), RankKey(other))

\* C24: an entry whose stored embedding is the zero vector is in the results
\* of no search by similarity: its cosine similarity is undefined and the
\* entry is skipped, it is not given a score.
C24_ZeroVectorIsSkipped ==
    SemanticReply =>
        \A i \in DOMAIN reply.results : ~IsZero(memObj[reply.results[i]].embedding)

\* Searches over entries that all got a vector when they were written;
\* keyword mode reads no stored vector
NextKeyword ==
    \/ Deliver
    \/ Tick
    \/ \E req \in SearchStoreRequests : Quiet /\ store_memory(1, req)
    \/ store_memory_embedded(1, UnitVector)
    \/ \E request \in MemorySearchRequests : Quiet /\ search_memories(1, request)
    \/ \E query_embedding \in {UnitVector, NoVector} :
           search_memories_embedded(1, query_embedding)

SpecKeyword == Init /\ [][NextKeyword]_vars

\* The number of words of the query of the returned search that the
\* content of an entry holds, letter case set aside
MatchCount(id) ==
    LET query == reply.request.query
        content == Lower(Texts[memObj[id].content])
    IN Cardinality({k \in DOMAIN query :
           \E i \in 0..(Len(content) - Len(Texts[query[k]])) :
               SubSeq(content, i + 1, i + Len(Texts[query[k]]))
                   = Lower(Texts[query[k]])})

\* C23: search_memories answers in keyword mode exactly when the query got
\* no embedding; every entry returned in that mode holds one of the words
\* of the query, letter case set aside, the entries are ordered
\* non-increasing by match_count * importance, and there are at most
\* `limit` of them.
C23_KeywordMode ==
    /\ (reply.op = "search_memories" /\ reply.status = 200) =>
           (reply.mode = "keyword" <=> reply.query_embedding = NoVector)
    /\ KeywordReply =>
           LET results == reply.results
           IN /\ Len(results) <= reply.request.limit
              /\ \A i \in DOMAIN results : MatchCount(results[i]) >= 1
              /\ \A i, j \in DOMAIN results :
                    i < j => MatchCount(results[i]) * memObj[results[i]].importance
                               >= MatchCount(results[j]) * memObj[results[j]].importance

\* A keyword search has returned two entries in the reverse of the order of
\* the store, the first with more matches than the second
C23_Witness ==
    /\ KeywordReply
    /\ Len(reply.results) = 2
    /\ reply.results[1] > reply.results[2]
    /\ MatchCount(reply.results[1]) > MatchCount(reply.results[2])

----------------------------------------------------------------------------
(* Consolidation passes that overlap other requests: while a pass is       *)
(* suspended in the Summarizer the event loop runs other handlers          *)

NextOverlap ==
    \/ Deliver
    \/ Tick
    \/ \E req \in {q \in SessionStoreRequests : q.session_id = 1} :
           Quiet /\ store_memory(1, req)
    \/ store_memory_embedded(1, UnitVector)
    \/ \E memory_id \in 1..nextMem : delete_memory(memory_id)
    \/ \E r \in Reqs, req \in SessionConsolidationRequests : consolidate_memories(r, req)
    \/ \E r \in Reqs : consolidate_memories_summarized(r, "s")

SpecOverlap == Init /\ [][NextOverlap]_vars

\* C25: also when consolidation passes overlap each other or other
\* requests, a session entry is promoted at most once: no two episodic
\* entries of the store have the same promoted_from.
C25_PromotedAtMostOnce ==
    \A e, f \in Range(memOrder) :
        (e # f /\ memObj[e].promoted_from # NoId)
            => memObj[e].promoted_from # memObj[f].promoted_from

\* C26: a consolidation pass runs to its end and returns its report, also
\* when a candidate it selected is removed by another request before the
\* pass comes to it; it never aborts.
C26_PassRunsToCompletion ==
    ~(reply.op = "consolidate_memories" /\ reply.status = 500)

----------------------------------------------------------------------------
(* Uploads that overlap the deletion of their collection: upload_document  *)
(* is suspended while it reads the file, in generate_embedding and in the  *)
(* calls of the index; delete_collection in its call of the index          *)

NextKbOverlap ==
    \/ Deliver
    \/ Quiet /\ create_collection(TRUE)
    \/ \E req \in UploadRequests : upload_document(1, req)
    \/ upload_document_read(1)
    \/ upload_document_embedded(1, Embedded([i \in 1..PendingChunks(1) |-> UnitVector]))
    \/ \E reachable \in BOOLEAN : upload_document_ensured(1, reachable)
    \/ \E reachable \in BOOLEAN : upload_document_stored(1, reachable)
    \/ \E c \in 1..MaxCol : delete_collection(2, c)
    \/ \E reachable \in BOOLEAN : delete_collection_indexed(2, reachable)

SpecKbOverlap == Init /\ [][NextKbOverlap]_vars

\* C27: every Document and every chunk of the store has the collection id
\* of a Collection of the store, also when an upload_document overlaps a
\* delete_collection of its collection.
C27_NoOrphans ==
    /\ \A d \in DOMAIN documents : documents[d].collection_id \in DOMAIN collections
    /\ \A i \in DOMAIN chunkStore : chunkStore[i].collection_id \in DOMAIN collections

----------------------------------------------------------------------------
(* Documents come and go: uploads, delete_document and searches, with no   *)
(* collection ever deleted                                                 *)

NextDocs ==
    \/ Deliver
    \/ Quiet /\ create_collection(TRUE)
    \/ \E req \in UploadRequests : upload_document(1, req)
    \/ upload_document_read(1)
    \/ \E embeddings \in {Embedded([i \in 1..PendingChunks(1) |-> UnitVector]),
                          EmbedError} :
           upload_document_embedded(1, embeddings)
    \/ \E reachable \in BOOLEAN : upload_document_ensured(1, reachable)
    \/ \E reachable \in BOOLEAN : upload_document_stored(1, reachable)
    \/ \E d \in 1..MaxDoc : delete_document(d)
    \/ \E request \in {q \in SearchRequests : q.limit = 2 /\ q.score_threshold = 5},
          reachable \in BOOLEAN :
           Quiet /\ semantic_search(request, Embedded(<<UnitVector>>), reachable)

SpecDocs == Init /\ [][NextDocs]_vars

\* C28: once delete_document(d) has completed, no semantic_search returns a
\* result of document d, whether the search is answered by the vector index
\* or by the scan of the stored chunks.  With no collection ever deleted
\* and no upload under way, the documents of a result that are not in the
\* store have been deleted by delete_document.
C28_DeletedDocumentIsNotFound ==
    (reply.op = "semantic_search" /\ reply.status = 200) =>
        \A i \in DOMAIN reply.results :
            reply.results[i].document_id \in DOMAIN documents

\* The chunk_count values of the stored Documents of a collection, added up
ChunkTotal(collection_id) ==
    SumTo([d \in 1..(nextDoc - 1) |->
              IF d \in DOMAIN documents /\ documents[d].collection_id = collection_id
              THEN documents[d].chunk_count ELSE 0],
          nextDoc - 1)

\* C29: for every collection, document_count is the number of the stored
\* Documents of the collection and chunk_count is the sum of their
\* chunk_count, after any sequence of upload_document and delete_document;
\* neither counter is negative.
C29_CountersMatchDocuments ==
    \A c \in DOMAIN collections :
        /\ collections[c].document_count =
              Cardinality({d \in DOMAIN documents : documents[d].collection_id = c})
        /\ collections[c].chunk_count = ChunkTotal(c)
        /\ collections[c].document_count >= 0
        /\ collections[c].chunk_count >= 0

\* A document has been deleted from a collection that keeps another
\* document, of two chunks
C29_Witness ==
    /\ reply.op = "delete_document"
    /\ reply.status = 200
    /\ \E c \in DOMAIN collections :
          collections[c].document_count = 1 /\ collections[c].chunk_count = 2

----------------------------------------------------------------------------
(* build_context: the memories that enter the context of a chat            *)

\* limit=20 and min_importance=0.3 of the search of build_context
ContextLimit == 20

ContextMinImportance == 3

\* memory.py:469-475: the kinds the call asks for
ContextTypes(call) ==
    (IF call.session_id # NoId THEN {"session"} ELSE {})
      \cup (IF call.include_episodic THEN {"episodic"} ELSE {})
      \cup (IF call.include_semantic THEN {"semantic"} ELSE {})

\* memory.py:478-485: the request build_context hands to search_memories
ContextSearchRequest(call) ==
    [query |-> call.query, types |-> ContextTypes(call),
     session_id |-> call.session_id, agent_id |-> call.agent_id,
     limit |-> ContextLimit, min_importance |-> ContextMinImportance,
     time_range_hours |-> NoHours]

\* build_context up to the await of generate_embedding inside search_memories
build_context(r, call) ==
    /\ Ready
    /\ inflight[r] = Idle
    /\ inflight' = [inflight EXCEPT ![r] =
           [op |-> "build_context", pc |-> "embed",
            request |-> ContextSearchRequest(call), call |-> call]]
    /\ memObj' = Collect(memObj, memOrder, inflight', reply)
    /\ UNCHANGED <<kbVars, fn, clock, sessions, memOrder, nextMem, nextSess, reply>>

\* The rest of search_memories and the loop over its results
build_context_embedded(r, query_embedding) ==
    /\ Ready
    /\ inflight[r].op = "build_context"
    /\ LET request == inflight[r].request
           call == inflight[r].call
           ids == IF query_embedding = NoVector
                  THEN keyword_search(memOrder, memObj, request)
                  ELSE TopIds(ScanMemories(memOrder, memObj, request,
                                           query_embedding, clock),
                              request.limit)
           results == [i \in DOMAIN ids |-> memObj[ids[i]]]
           out == MemoryContext(results, call.max_tokens)
           n == Len(out.results)
       IN reply' = [op |-> "build_context", status |-> 200, call |-> call,
                    context |-> out.context_text, memory_count |-> n,
                    total_tokens |-> out.total_tokens,
                    memory_ids |-> SubSeq(ids, 1, n)]
    /\ inflight' = [inflight EXCEPT ![r] = Idle]
    /\ memObj' = Collect(memObj, memOrder, inflight', reply')
    /\ UNCHANGED <<kbVars, fn, clock, sessions, memOrder, nextMem, nextSess>>

\* Writes of every kind, above and below the importance build_context asks for
ContextStoreRequests ==
    [content : {"a"}, type : MemoryTypes, importance : {2, 5},
     session_id : {1}, agent_id : {NoId}, auto_summarize : {FALSE},
     metadata : {NoMetadata}]

\* Calls with and without a session, with each kind asked for or not, and
\* with room for one memory or for all of them
ContextBuildCalls ==
    [query : {<<"a">>}, session_id : {NoId, 1}, agent_id : {NoId},
     max_tokens : {1, 126}, include_episodic : BOOLEAN, include_semantic : BOOLEAN]

NextBuild ==
    \/ Deliver
    \/ \E req \in ContextStoreRequests : Quiet /\ store_memory(1, req)
    \/ \E embedding \in {UnitVector, NoVector} : store_memory_embedded(1, embedding)
    \/ \E call \in ContextBuildCalls : Quiet /\ build_context(1, call)
    \/ \E query_embedding \in {UnitVector, NoVector} :
           build_context_embedded(1, query_embedding)

SpecBuild == Init /\ [][NextBuild]_vars

\* C30: every memory that build_context includes has a kind the caller asked
\* for (session only with a session_id, episodic only with include_episodic,
\* semantic only with include_semantic) and an importance of at least 0.3;
\* when the caller asks for no kind, the context is empty.
C30_ContextOfRequestedKinds ==
    reply.op = "build_context" =>
        /\ \A i \in DOMAIN reply.memory_ids :
              /\ memObj[reply.memory_ids[i]].type \in ContextTypes(reply.call)
              /\ memObj[reply.memory_ids[i]].importance >= ContextMinImportance
        /\ ContextTypes(reply.call) = {} =>
              reply.memory_count = 0 /\ reply.context = <<>>
====
